---- MODULE Spec2Model ----
(***************************************************************************)
(* Metafile aggregation of pesummary: building the nested dictionary of    *)
(* analyses (core _MetaFile and gw GWMetaFile), writing it as JSON / HDF5, *)
(* reading it back, and choosing the reader of a result file.              *)
(***************************************************************************)
EXTENDS Integers, Sequences, FiniteSets, TLC

\* -------------------------------------------------------------------------
\* Bounds of the model
\* -------------------------------------------------------------------------
MaxLabels == 2
MaxDraws == 3
MaxRuns == 2

\* -------------------------------------------------------------------------
\* Python values
\* -------------------------------------------------------------------------
None == [t |-> "none"]
NaN == [t |-> "nan"]
Num(x) == [t |-> "num", v |-> x]
Str(s) == [t |-> "str", v |-> s]
Bytes(s) == [t |-> "bytes", v |-> s]
Object == [t |-> "object"]

EmptyDict == [k \in {} |-> None]

Range(s) == {s[i] : i \in DOMAIN s}

\* an insertion-ordered dict: the keys in insertion order and the mapping
EmptyOD == [keys |-> <<>>, at |-> EmptyDict]
Has(d, k) == k \in DOMAIN d.at
Put(d, k, v) ==
    [keys |-> IF Has(d, k) THEN d.keys ELSE Append(d.keys, k),
     at |-> (k :> v) @@ d.at]

\* d[k] = v on a plain mapping
Set(d, k, v) == (k :> v) @@ d

\* -------------------------------------------------------------------------
\* Inputs of the model
\* -------------------------------------------------------------------------
Labels == {"l1", "l2", "version"}

\* the alphabetical order json.dump(sort_keys=True) and h5py iterate in
Rank(k) ==
    CASE k = "l1" -> 1
      [] k = "l2" -> 2
      [] k = "pesummary" -> 3
      [] k = "version" -> 4

DistinctSeqs(S, n) ==
    {s \in UNION {[1..m -> S] : m \in 0..n} :
        \A i, j \in DOMAIN s : i # j => s[i] # s[j]}

LabelLists == DistinctSeqs(Labels, MaxLabels)

ParamLists ==
    {<<"mass_1", "mass_2">>, <<"mass_2", "mass_1">>, <<"weights", "mass_1">>}

\* the r-th draw of parameter p in the analysis l; every cell is distinct
Draw(l, p, r) ==
    Rank(l) * 100
    + (CASE p = "mass_1" -> 10 [] p = "mass_2" -> 20 [] p = "weights" -> 30)
    + r

ConfigDict(l) == [engine |-> [seed |-> Str(<<"seed", l>>)]]

PESUMMARY_VERSION == Str("pesummary.__version__")
FileVersion(l) == Str(<<"file_version", l>>)

PriorDraws(l) == <<Rank(l) * 1000 + 1, Rank(l) * 1000 + 2>>

\* prior samples for no label, for the first label, or for every label
PriorChoices(labs) ==
    {EmptyDict}
    \cup (IF labs = <<>> THEN {}
         ELSE {[mass_1 |-> [l \in S |-> PriorDraws(l)]] :
                  S \in {{labs[1]}, Range(labs)}})

\* the injected value of parameter p in the analysis l
InjectionValue(l, p) ==
    Rank(l) * 10000
    + (CASE p = "mass_1" -> 1 [] p = "mass_2" -> 2 [] p = "weights" -> 3)

\* the injection mapping: NaN for every parameter (no injection file), a
\* value for every parameter, NaN for the first parameter and a value for
\* the others, or a mapping without an entry for the last parameter of the
\* first label
InjectionChoices(labs, sd) ==
    {[l \in Range(labs) |->
         [p \in (IF kind = "partial" /\ l = labs[1]
                 THEN Range(sd[l].parameters)
                         \ {sd[l].parameters[Len(sd[l].parameters)]}
                 ELSE Range(sd[l].parameters)) |->
             IF kind = "nan" \/ (kind = "mixed" /\ p = sd[l].parameters[1])
             THEN NaN ELSE Num(InjectionValue(l, p))]] :
        kind \in {"nan", "values", "mixed", "partial"}}

VARIABLES
    labels,              \* _MetaFile.labels
    samples,             \* _MetaFile.samples: label -> SamplesDict
    config,              \* _MetaFile.config: list aligned with labels
    injection_data,      \* _MetaFile.injection_data: label -> parameter -> value
    file_kwargs,         \* _MetaFile.file_kwargs: label -> meta data
    priors,              \* _MetaFile.priors: parameter -> label -> samples
    package_information, \* _MetaFile.package_information
    data,                \* _MetaFile.data
    err,                 \* the exception the last operation raised, or "none"
    json_file,           \* content of posterior_samples.json
    h5_file,             \* content of posterior_samples.h5
    loaded,              \* what PESummary._grab_data_from_dictionary returned
    gw_in,               \* GWMetaFile: the inputs of the last run
    gw_existing,         \* GWMetaFile: the existing metafile the last run read
    gw_data,             \* GWMetaFile.data
    gw_err,              \* the exception the last run raised, or "none"
    gw_file,             \* the metafile in webdir/samples
    gw_runs,             \* number of runs so far
    rd_path,             \* read: the results file read() is called on
    rd_trace,            \* read: the predicates and loaders read() called
    rd_result,           \* read: what read() returned or raised
    call_args,           \* a call of a function of the library: its arguments
    call_result          \* what the call returned or raised

core_vars == <<labels, samples, config, injection_data, file_kwargs, priors,
               package_information, data, err, json_file, h5_file, loaded>>

gw_vars == <<gw_in, gw_existing, gw_data, gw_err, gw_file, gw_runs>>

read_vars == <<rd_path, rd_trace, rd_result>>

call_vars == <<call_args, call_result>>

vars == <<core_vars, gw_vars, read_vars, call_vars>>

inputs == <<labels, samples, config, injection_data, file_kwargs, priors>>

\* -------------------------------------------------------------------------
\* _MetaFile._make_dictionary
\* -------------------------------------------------------------------------
\* the columns without the transposition
ColumnMajor(sd) == [c \in 1..Len(sd.parameters) |-> sd.cols[sd.parameters[c]]]

\* np.array([samples[label][i] for i in parameters]).T.tolist()
RowMajor(sd) ==
    LET ps == sd.parameters
        n == IF ps = <<>> THEN 0 ELSE Len(sd.cols[ps[1]])
    IN [r \in 1..n |-> [c \in 1..Len(ps) |-> sd.cols[ps[c]][r]]]

\* a skeleton without the optional nodes
SkeletonWithoutOptional ==
    [posterior_samples |-> EmptyDict, injection_data |-> EmptyDict,
     version |-> EmptyDict, meta_data |-> EmptyDict]

LabelSkeleton ==
    [posterior_samples |-> EmptyDict, injection_data |-> EmptyDict,
     version |-> EmptyDict, meta_data |-> EmptyDict, priors |-> EmptyDict,
     config_file |-> EmptyDict]

\* the body of the loop over the labels, for the num-th label; a record with
\* the dictionary and the exception raised, if any
AddLabel(d, num) ==
    LET label == labels[num]
        sd == samples[label]
        e0 == d.at[label]
        e1 == Set(e0, "posterior_samples",
                  [parameter_names |-> sd.parameters, samples |-> RowMajor(sd)])
        injOk == \A i \in Range(sd.parameters) : i \in DOMAIN injection_data[label]
        e2 == Set(e1, "injection_data",
                  [injection_values |->
                      [c \in 1..Len(sd.parameters) |->
                          injection_data[label][sd.parameters[c]]]])
        e3 == Set(e2, "version", <<FileVersion(label)>>)
        e4 == Set(e3, "meta_data", file_kwargs[label])
        e5 == IF config[num] # None
              THEN Set(e4, "config_file", config[num].v)
              ELSE e4
        pkeys == {key \in DOMAIN priors : label \in DOMAIN priors[key]}
        e6 == Set(e5, "priors",
                  [key \in DOMAIN e5["priors"] \cup pkeys |->
                      IF key \in pkeys THEN priors[key][label]
                      ELSE e5["priors"][key]])
    IN  IF ~injOk THEN [d |-> d, err |-> "KeyError"]
        ELSE IF pkeys # {} /\ "priors" \notin DOMAIN e5
        THEN [d |-> Put(d, label, e5), err |-> "KeyError"]
        ELSE [d |-> Put(d, label, IF pkeys = {} THEN e5 ELSE e6), err |-> "none"]

RECURSIVE AddLabels(_, _)
AddLabels(d, num) ==
    IF num > Len(labels) THEN [d |-> d, err |-> "none"]
    ELSE LET r == AddLabel(d, num)
         IN IF r.err # "none" THEN r ELSE AddLabels(r.d, num + 1)

RECURSIVE Skeleton(_, _)
Skeleton(d, num) ==
    IF num > Len(labels) THEN d
    ELSE Skeleton(Put(d, labels[num], LabelSkeleton), num + 1)

MakeDictionaryResult ==
    LET d0 == Skeleton(EmptyOD, 1)
        d1 == Put(d0, "version", package_information)
        d2 == Put(d1, "version", Set(d1.at["version"], "pesummary", <<PESUMMARY_VERSION>>))
    IN AddLabels(d2, 1)

MakeDictionary ==
    /\ data = None
    /\ err = "none"
    /\ LET r == MakeDictionaryResult
       IN /\ err' = r.err
          /\ data' = IF r.err = "none" THEN r.d ELSE data
          \* dictionary["version"] is the package_information object itself
          /\ package_information' = r.d.at["version"]
    /\ UNCHANGED <<inputs, json_file, h5_file, loaded, gw_vars, read_vars, call_vars>>

\* -------------------------------------------------------------------------
\* _MetaFile.save_to_json and PESummaryJsonEncoder
\* -------------------------------------------------------------------------
\* TRUE iff json.dump can encode the value: PESummaryJsonEncoder.default ends
\* in json.JSONEncoder.default, which raises TypeError
RECURSIVE JsonEncodable(_)
JsonEncodable(v) ==
    IF DOMAIN v = {} THEN TRUE
    ELSE IF "t" \in DOMAIN v /\ v.t \in {"none", "nan", "num", "str", "object"}
    THEN v.t # "object"
    ELSE \A k \in DOMAIN v : JsonEncodable(v[k])

\* the keys of a label's entry whose values json.dump may fail on
EntryEncodable(e) ==
    "meta_data" \in DOMAIN e => JsonEncodable(e["meta_data"])

\* what json.load returns for a label's entry; PESummaryJsonEncoder.default
\* turns a numpy array into the list of its rows
JsonEntry(e) ==
    [k \in DOMAIN e |->
        IF k = "posterior_samples" /\ "t" \in DOMAIN e[k]
        THEN [t |-> "list", rows |-> e[k].rows]
        ELSE e[k]]

SortKeys(keys) == SortSeq(keys, LAMBDA a, b : Rank(a) < Rank(b))

\* json.dump(data, f, sort_keys=True): the keys in the order they are
\* written, and how many of them are written before an encoding error
JsonDump(d) ==
    LET keys == SortKeys(d.keys)
        bad == {i \in DOMAIN keys : ~EntryEncodable(d.at[keys[i]])}
        first == CHOOSE i \in bad : \A j \in bad : i <= j
    IN  IF bad = {}
        THEN [kind |-> "complete",
              doc |-> [keys |-> keys, at |-> [k \in DOMAIN d.at |-> JsonEntry(d.at[k])]]]
        ELSE [kind |-> "partial", keys |-> SubSeq(keys, 1, first)]

\* open(meta_file, "w") truncates the final path, json.dump writes to it
SaveToJson ==
    /\ data # None
    /\ json_file.kind = "absent"
    /\ json_file' = JsonDump(data)
    /\ err' = IF JsonDump(data).kind = "complete" THEN "none" ELSE "TypeError"
    /\ UNCHANGED <<inputs, package_information, data, h5_file, loaded, gw_vars, read_vars, call_vars>>

\* -------------------------------------------------------------------------
\* _MetaFile.save_to_hdf5, recursively_save_dictionary_to_hdf5_file and
\* create_hdf5_dataset
\* -------------------------------------------------------------------------
\* samples.to_structured_array(): one row tuple per draw, a field per parameter
_convert_posterior_samples_to_numpy(sd) ==
    [t |-> "recarray", names |-> sd.parameters, rows |-> RowMajor(sd)]

\* create_hdf5_dataset for a scalar leaf: the dataset that is created
H5Scalar(v) ==
    CASE v.t = "str" -> <<Bytes(v.v)>>
      [] v.t = "bytes" -> <<v>>
      [] v.t = "num" -> <<v>>
      [] v.t = "nan" -> <<v>>
      [] OTHER -> [error |-> "TypeError"]

\* create_hdf5_dataset for a list of scalars: the branch is chosen by value[0]
H5List(l) ==
    IF l = <<>> THEN <<>>
    ELSE CASE l[1].t \in {"str", "bytes"} ->
                [i \in DOMAIN l |-> Bytes(IF l[i].t = "nan" THEN "nan" ELSE l[i].v)]
           [] l[1].t = "nan" -> [i \in DOMAIN l |-> Bytes("NaN")]
           [] l[1].t = "num" ->
                IF \A i \in DOMAIN l : l[i].t \in {"num", "nan"} THEN l
                ELSE [error |-> "TypeError"]
           [] OTHER -> [error |-> "TypeError"]

\* create_hdf5_dataset for a structured array
H5Records(a) ==
    IF a.rows = <<>> THEN [t |-> "ndarray", names |-> None, rows |-> <<>>]
    ELSE [t |-> "ndarray", names |-> a.names, rows |-> a.rows]

\* a dictionary of scalar leaves and dictionaries: groups and datasets
RECURSIVE H5Dict(_)
H5Dict(v) ==
    [k \in DOMAIN v |->
        IF DOMAIN v[k] = {} THEN EmptyDict
        ELSE IF "t" \in DOMAIN v[k] THEN H5Scalar(v[k])
        ELSE H5Dict(v[k])]

RECURSIVE H5DictWritable(_)
H5DictWritable(v) ==
    \A k \in DOMAIN v :
        IF DOMAIN v[k] = {} THEN TRUE
        ELSE IF "t" \in DOMAIN v[k] THEN v[k].t \in {"str", "bytes", "num", "nan"}
        ELSE H5DictWritable(v[k])

IsError(x) == DOMAIN x = {"error"}

\* the group written for a top-level key; posterior_samples is a structured
\* array after the conversion, or the dictionary _make_dictionary built
H5Entry(e) ==
    [k \in DOMAIN e |->
        CASE k = "posterior_samples" ->
                IF "t" \in DOMAIN e[k] THEN H5Records(e[k])
                ELSE IF DOMAIN e[k] = {} THEN EmptyDict
                ELSE [parameter_names |->
                         [i \in DOMAIN e[k].parameter_names |->
                             Bytes(e[k].parameter_names[i])],
                      samples |-> e[k].samples]
          [] k = "injection_data" ->
                IF DOMAIN e[k] = {} THEN EmptyDict
                ELSE [injection_values |-> H5List(e[k].injection_values)]
          [] k \in {"version", "pesummary"} ->
                IF DOMAIN e[k] = {} THEN EmptyDict ELSE H5List(e[k])
          [] k = "priors" -> e[k]
          [] OTHER -> H5Dict(e[k])]

\* the keys of an entry in the order they are written, up to the first one
\* create_hdf5_dataset raises on
EntryH5Writable(e) ==
    /\ "injection_data" \in DOMAIN e /\ DOMAIN e["injection_data"] # {}
          => ~IsError(H5List(e["injection_data"].injection_values))
    /\ "meta_data" \in DOMAIN e => H5DictWritable(e["meta_data"])
    /\ "config_file" \in DOMAIN e => H5DictWritable(e["config_file"])

\* data[label]["posterior_samples"] = _convert_posterior_samples_to_numpy(...)
RECURSIVE ConvertAll(_, _)
ConvertAll(d, num) ==
    IF num > Len(labels) THEN d
    ELSE ConvertAll(
            Put(d, labels[num],
                Set(d.at[labels[num]], "posterior_samples",
                    _convert_posterior_samples_to_numpy(samples[labels[num]]))),
            num + 1)

\* recursively_save_dictionary_to_hdf5_file: the items are written in the
\* order of the dictionary; h5py lists the members of a group by name
H5Save(d) ==
    LET bad == {i \in DOMAIN d.keys : ~EntryH5Writable(d.at[d.keys[i]])}
        first == CHOOSE i \in bad : \A j \in bad : i <= j
    IN  IF bad = {}
        THEN [kind |-> "complete",
              doc |-> [keys |-> SortKeys(d.keys),
                       at |-> [k \in DOMAIN d.at |-> H5Entry(d.at[k])]]]
        ELSE [kind |-> "partial", keys |-> SortKeys(SubSeq(d.keys, 1, first))]

\* h5py.File(meta_file, "w") truncates the final path
SaveToHdf5 ==
    /\ data # None
    /\ h5_file.kind = "absent"
    /\ data' = ConvertAll(data, 1)
    /\ h5_file' = H5Save(data')
    /\ err' = IF h5_file'.kind = "complete" THEN "none" ELSE "TypeError"
    /\ UNCHANGED <<inputs, package_information, json_file, loaded, gw_vars, read_vars, call_vars>>

\* -------------------------------------------------------------------------
\* PESummary._grab_data_from_dictionary
\* -------------------------------------------------------------------------
IsArray(v) == "t" \in DOMAIN v

\* parameters and samples of one analysis
GrabPosterior(entry) ==
    LET ps == entry["posterior_samples"]
    IN  IF IsArray(ps)
        THEN IF ps.t = "list" \/ ps.names = None THEN [err |-> "TypeError"]
             ELSE [err |-> "none", parameters |-> ps.names, samples |-> ps.rows]
        ELSE IF "parameter_names" \notin DOMAIN ps THEN [err |-> "KeyError"]
        ELSE IF ps.parameter_names = <<>> THEN [err |-> "IndexError"]
        ELSE [err |-> "none", parameters |-> ps.parameter_names,
              samples |-> ps.samples]

parse_injection_value(value) ==
    IF value.t \in {"bytes", "str"} /\ value.v \in {"NaN", "nan"} THEN NaN
    ELSE IF value.t \in {"bytes", "str"} /\ value.v \in {"None", "none"} THEN None
    ELSE IF value.t = "bytes" THEN Str(value.v)
    ELSE value

Index(s, x) == CHOOSE i \in DOMAIN s : s[i] = x /\ \A j \in DOMAIN s : s[j] = x => i <= j

ZipDict(ps, inj) ==
    LET n == IF Len(ps) < Len(inj) THEN Len(ps) ELSE Len(inj)
        last(p) == CHOOSE i \in 1..n : ps[i] = p /\ \A j \in 1..n : ps[j] = p => j <= i
    IN [p \in {ps[i] : i \in 1..n} |-> parse_injection_value(inj[last(p)])]

RECURSIVE InjList(_, _)
InjList(dictionary, labs) ==
    IF labs = <<>> THEN <<>>
    ELSE LET entry == dictionary.at[Head(labs)]
             rest == InjList(dictionary, Tail(labs))
         IN IF "injection_data" \in DOMAIN entry
            THEN <<ZipDict(GrabPosterior(entry).parameters,
                           entry["injection_data"].injection_values)>> \o rest
            ELSE rest

Weights(post) ==
    IF "weights" \in Range(post.parameters)
    THEN [t |-> "Array",
          v |-> [r \in DOMAIN post.samples |->
                    post.samples[r][Index(post.parameters, "weights")]]]
    ELSE None

\* the per-label prior nodes returned as they are stored (label, then key)
AsStored(prior_dict) == prior_dict

\* reversed_prior_dict: the per-label prior nodes regrouped key -> label
ReversePriors(prior_dict) ==
    LET pkeys == UNION {DOMAIN prior_dict[l] : l \in DOMAIN prior_dict}
    IN  [key \in pkeys |->
            [l \in {x \in DOMAIN prior_dict : key \in DOMAIN prior_dict[x]} |->
                prior_dict[l][key]]]

GrabDataFromDictionary(dictionary) ==
    LET labs == SelectSeq(dictionary.keys, LAMBDA k : k # "version")
        entry(l) == dictionary.at[l]
        post(l) == GrabPosterior(entry(l))
        missing == {i \in DOMAIN labs : "posterior_samples" \notin DOMAIN entry(labs[i])}
        failing == {i \in DOMAIN labs : i \notin missing /\ post(labs[i]).err # "none"}
        prior(l) == IF "priors" \in DOMAIN entry(l) THEN entry(l)["priors"] ELSE EmptyDict
    IN  IF missing # {} THEN [error |-> "KeyError"]
        ELSE IF failing # {}
        THEN [error |-> post(labs[CHOOSE i \in failing : \A j \in failing : i <= j]).err]
        ELSE
        [error |-> "none",
         parameters |-> [i \in DOMAIN labs |-> post(labs[i]).parameters],
         samples |-> [i \in DOMAIN labs |-> post(labs[i]).samples],
         injection |-> InjList(dictionary, labs),
         version |-> [i \in DOMAIN labs |->
                         IF "version" \in DOMAIN entry(labs[i])
                         THEN entry(labs[i])["version"]
                         ELSE Str("No version information found")],
         kwargs |-> [i \in DOMAIN labs |->
                        IF "meta_data" \in DOMAIN entry(labs[i])
                        THEN entry(labs[i])["meta_data"]
                        ELSE [sampler |-> EmptyDict, meta_data |-> EmptyDict]],
         weights |-> [l \in Range(labs) |-> Weights(post(l))],
         labels |-> labs,
         config |-> [l \in Range(labs) |->
                        IF "config_file" \in DOMAIN entry(l)
                        THEN entry(l)["config_file"] ELSE None],
         prior |-> ReversePriors([l \in Range(labs) |-> prior(l)])]

\* PESummary._grab_data_from_json_file on the file save_to_json wrote
ReadJson ==
    /\ json_file.kind = "complete"
    /\ loaded = None
    /\ loaded' = GrabDataFromDictionary(json_file.doc) @@ [from |-> "json"]
    /\ err' = GrabDataFromDictionary(json_file.doc).error
    /\ UNCHANGED <<inputs, package_information, data, json_file, h5_file, gw_vars, read_vars, call_vars>>

\* PESummary._grab_data_from_hdf5_file on the file save_to_hdf5 wrote
ReadHdf5 ==
    /\ h5_file.kind = "complete"
    /\ loaded = None
    /\ loaded' = GrabDataFromDictionary(h5_file.doc) @@ [from |-> "h5"]
    /\ err' = GrabDataFromDictionary(h5_file.doc).error
    /\ UNCHANGED <<inputs, package_information, data, json_file, h5_file, gw_vars, read_vars, call_vars>>

\* -------------------------------------------------------------------------
\* GWMetaFile: the inputs of a run
\* -------------------------------------------------------------------------
GWLabels == {"l1", "l2"}
GWLabelLists == DistinctSeqs(GWLabels, MaxLabels) \ {<<>>}

GWParameters == <<"mass_1", "mass_2">>

\* side data of a run: psds and config for every label or for none, the
\* calibration as None, a list of None, data for the first label or for all,
\* the approximant for every label or for none
GWKinds ==
    {[psds |-> FALSE, calibration |-> "none", config |-> FALSE, approximant |-> FALSE],
     [psds |-> TRUE, calibration |-> "none", config |-> FALSE, approximant |-> FALSE],
     [psds |-> FALSE, calibration |-> "all", config |-> FALSE, approximant |-> FALSE],
     [psds |-> FALSE, calibration |-> "first", config |-> FALSE, approximant |-> FALSE],
     [psds |-> FALSE, calibration |-> "list_of_none", config |-> FALSE, approximant |-> FALSE],
     [psds |-> FALSE, calibration |-> "none", config |-> TRUE, approximant |-> FALSE],
     [psds |-> FALSE, calibration |-> "none", config |-> FALSE, approximant |-> TRUE],
     [psds |-> TRUE, calibration |-> "all", config |-> TRUE, approximant |-> TRUE]}

GWInputs == {[labels |-> ls, kinds |-> k] : ls \in GWLabelLists, k \in GWKinds}

\* the data a run supplies for a label; run tells the runs apart
GWSamples(l, run) ==
    [r \in 1..2 |-> [c \in 1..2 |-> run * 1000 + Draw(l, GWParameters[c], r)]]
GWInjection(l, run) == [p \in Range(GWParameters) |-> Num(run * 1000 + Draw(l, p, 0))]
GWVersion(l, run) == Str(<<"file_version", l, run>>)
GWKwargs(l, run) == [sampler |-> [run |-> Num(run)], meta_data |-> EmptyDict]
GWPsd(l, run) == [H1 |-> [t |-> "psd", of |-> <<l, run>>]]
GWCalibration(l, run) == [H1 |-> [t |-> "calibration", of |-> <<l, run>>]]
GWConfig(l, run) == [engine |-> [seed |-> Str(<<"seed", l, run>>)]]
GWApproximant(l, run) == Str(<<"approximant", l, run>>)

\* self.calibration_envelopes[num]
CalibrationEnvelope(inp, num, run) ==
    IF inp.kinds.calibration = "all" \/ (inp.kinds.calibration = "first" /\ num = 1)
    THEN GWCalibration(inp.labels[num], run)
    ELSE None

\* self.calibration
SelfCalibration(inp, run) ==
    IF inp.kinds.calibration = "none" THEN None
    ELSE [t |-> "list",
          v |-> [num \in DOMAIN inp.labels |-> CalibrationEnvelope(inp, num, run)]]

\* -------------------------------------------------------------------------
\* The reader of the existing metafile
\* (PESummaryDeprecated._grab_data_from_dictionary, core and gw)
\* -------------------------------------------------------------------------
NodeOrNone(dictionary, node) ==
    IF node \in DOMAIN dictionary THEN dictionary[node] ELSE None

DeprecatedGrab(dictionary) ==
    LET labs == dictionary["posterior_samples"].keys
        post(l) == dictionary["posterior_samples"].at[l]
        version == IF "version" \in DOMAIN dictionary THEN dictionary["version"]
                   ELSE [keys |-> labs \o <<"pesummary">>,
                         at |-> [l \in Range(labs) \cup {"pesummary"} |->
                                    Str("No version information found")]]
        verkeys == SelectSeq(version.keys, LAMBDA k : k # "pesummary")
    IN  [parameters |-> [i \in DOMAIN labs |-> post(labs[i]).parameter_names],
         samples |-> [i \in DOMAIN labs |-> post(labs[i]).samples],
         injection |->
            IF "injection_data" \in DOMAIN dictionary
            THEN [i \in DOMAIN labs |->
                     [keys |-> post(labs[i]).parameter_names,
                      at |-> ZipDict(post(labs[i]).parameter_names,
                                     dictionary["injection_data"].at[labs[i]].injection_values)]]
            ELSE <<>>,
         version |-> [i \in DOMAIN verkeys |-> version.at[verkeys[i]]],
         kwargs |-> [i \in DOMAIN labs |->
                        IF "meta_data" \in DOMAIN dictionary
                        THEN dictionary["meta_data"].at[labs[i]]
                        ELSE [sampler |-> EmptyDict, meta_data |-> EmptyDict]],
         weights |-> [l \in Range(labs) |->
                        Weights([parameters |-> post(l).parameter_names,
                                 samples |-> post(l).samples])],
         labels |-> labs,
         config |-> NodeOrNone(dictionary, "config_file"),
         prior |-> IF "priors" \in DOMAIN dictionary THEN dictionary["priors"]
                   ELSE EmptyDict,
         approximant |->
            [i \in DOMAIN labs |->
                IF "approximant" \in DOMAIN dictionary
                   /\ Has(dictionary["approximant"], labs[i])
                THEN dictionary["approximant"].at[labs[i]] ELSE None],
         calibration |-> NodeOrNone(dictionary, "calibration_envelope"),
         psd |-> NodeOrNone(dictionary, "psds")]

\* -------------------------------------------------------------------------
\* GWMetaFile._make_dictionary
\* -------------------------------------------------------------------------
\* MetaFile._add_label: the node and the label's entry are created if missing
_add_label(d, base_level, label) ==
    LET d1 == IF base_level \in DOMAIN d THEN d ELSE Set(d, base_level, EmptyOD)
    IN  IF Has(d1[base_level], label) THEN d1
        ELSE Set(d1, base_level, Put(d1[base_level], label, EmptyDict))

\* truth value of a node read from a file, of a list and of a plain dict
TruthyNode(x) == x # None /\ x.keys # <<>>
TruthyList(x) == x # <<>>
TruthyDict(x) == x # None /\ DOMAIN x # {}

\* the test under which _make_dictionary_structure adds calibration_envelope
CalibrationCreates(c) ==
    /\ c # None
    /\ \/ c.t = "list" /\ c.v # <<>> /\ \E i \in DOMAIN c.v : c.v[i] # None
       \/ c.t = "dict" /\ c.v.keys # <<>>

\* `if test: self._add_label(base_level, label)`
AddLabelIf(test, d, base_level, label) ==
    IF test THEN _add_label(d, base_level, label) ELSE d

\* one iteration of _make_dictionary_structure; psd, cal, cfg and approx
\* are the truth values of the tests on its arguments
StructureLabel(d, i, psd, cal, cfg, approx) ==
    LET d1 == _add_label(d, "posterior_samples", i)
        d2 == _add_label(d1, "injection_data", i)
        d3 == _add_label(d2, "version", i)
        d4 == _add_label(d3, "meta_data", i)
        d5 == AddLabelIf(psd, d4, "psds", i)
        d6 == AddLabelIf(cal, d5, "calibration_envelope", i)
        d7 == AddLabelIf(cfg, d6, "config_file", i)
    IN  AddLabelIf(approx, d7, "approximant", i)

RECURSIVE _make_dictionary_structure(_, _, _, _, _, _)
_make_dictionary_structure(d, label, psd, cal, cfg, approx) ==
    IF label = <<>> THEN d
    ELSE _make_dictionary_structure(
            StructureLabel(d, Head(label), psd, cal, cfg, approx),
            Tail(label), psd, cal, cfg, approx)

\* self.data[node][label] = value
SetEntry(r, node, label, value) ==
    IF r.err # "none" THEN r
    ELSE IF node \notin DOMAIN r.d THEN [d |-> r.d, err |-> "KeyError"]
    ELSE [d |-> Set(r.d, node, Put(r.d[node], label, value)), err |-> "none"]

\* for i in psd.keys(): self.data[node][label][i] = psd[i]
UpdateEntry(r, node, label, side) ==
    IF r.err # "none" THEN r
    ELSE IF node \notin DOMAIN r.d \/ ~Has(r.d[node], label)
    THEN [d |-> r.d, err |-> "KeyError"]
    ELSE [d |-> Set(r.d, node, Put(r.d[node], label, side @@ r.d[node].at[label])),
          err |-> "none"]

\* an assignment, or the loop of assignments, under an `if`
SetEntryIf(test, r, node, label, value) ==
    IF test THEN SetEntry(r, node, label, value) ELSE r

UpdateEntryIf(test, r, node, label, side) ==
    IF test THEN UpdateEntry(r, node, label, side) ELSE r

\* GWMetaFile._add_data; a.psd, a.calibration and a.config are None or a
\* plain dict, a.approximant and a.pesummary_version None or a string
_add_data(r, label, a) ==
    LET r1 == SetEntry(r, "posterior_samples", label,
                       [parameter_names |-> a.parameters, samples |-> a.samples])
        r2 == SetEntry(r1, "injection_data", label, [injection_values |-> a.injection])
        r3 == SetEntry(r2, "version", label, <<a.version>>)
        r4 == SetEntry(r3, "meta_data", label, a.meta_data)
        r5 == UpdateEntryIf(TruthyDict(a.psd), r4, "psds", label, a.psd)
        r6 == UpdateEntryIf(TruthyDict(a.calibration), r5, "calibration_envelope",
                            label, a.calibration)
        r7 == SetEntryIf(TruthyDict(a.config), r6, "config_file", label, a.config)
        r8 == SetEntryIf(a.approximant # None, r7, "approximant", label, a.approximant)
    IN  SetEntryIf(a.pesummary_version # None, r8, "version", "pesummary",
                   <<a.pesummary_version>>)

\* a node read from the existing file, as the dict _add_data iterates over
AsDict(node) == IF node = None THEN None ELSE node.at

\* the first loop of _make_dictionary: the labels of the existing file
RECURSIVE AddExisting(_, _, _)
AddExisting(r, ex, num) ==
    IF num > Len(ex.labels) \/ r.err # "none" THEN r
    ELSE AddExisting(
            _add_data(r, ex.labels[num],
                      [parameters |-> ex.parameters[num],
                       samples |-> ex.samples[num],
                       \* list(injection) of a dict: its keys
                       injection |-> [c \in DOMAIN ex.injection[num].keys |->
                                         Str(ex.injection[num].keys[c])],
                       version |-> ex.version[num],
                       approximant |-> ex.approximant[num],
                       psd |-> AsDict(ex.psd),
                       calibration |-> AsDict(ex.calibration),
                       config |-> AsDict(ex.config),
                       pesummary_version |-> None,
                       meta_data |-> ex.kwargs[num]]),
            ex, num + 1)

\* TRUE iff the label is not among the labels of the existing file
NotInExisting(i, existing_label) == i \notin Range(existing_label)

\* the second loop of _make_dictionary: the labels of this run
RECURSIVE AddNew(_, _, _, _, _)
AddNew(r, inp, run, existing_label, num) ==
    IF num > Len(inp.labels) \/ r.err # "none" THEN r
    ELSE LET i == inp.labels[num]
         IN AddNew(
               IF NotInExisting(i, existing_label)
               THEN _add_data(r, i,
                       [parameters |-> GWParameters,
                        samples |-> GWSamples(i, run),
                        injection |-> [c \in DOMAIN GWParameters |->
                                          GWInjection(i, run)[GWParameters[c]]],
                        version |-> GWVersion(i, run),
                        approximant |-> IF inp.kinds.approximant
                                        THEN GWApproximant(i, run) ELSE None,
                        psd |-> IF inp.kinds.psds THEN GWPsd(i, run) ELSE None,
                        calibration |-> CalibrationEnvelope(inp, num, run),
                        config |-> IF inp.kinds.config THEN GWConfig(i, run) ELSE None,
                        pesummary_version |-> PESUMMARY_VERSION,
                        meta_data |-> GWKwargs(i, run)])
               ELSE r,
               inp, run, existing_label, num + 1)

\* the second half of _make_dictionary: the structure for the labels of this
\* run, then their data; r is what the first loop left
AddThisRun(r, inp, run, existing_label) ==
    IF r.err # "none" THEN r
    ELSE AddNew([d |-> _make_dictionary_structure(
                          r.d, inp.labels, inp.kinds.psds,
                          CalibrationCreates(SelfCalibration(inp, run)),
                          inp.kinds.config, inp.kinds.approximant),
                 err |-> "none"],
                inp, run, existing_label, 1)

\* GWMetaFile._make_dictionary; ex is what the reader returned for the
\* existing metafile, or None
GWMakeDictionary(ex, inp, run) ==
    LET r0 == IF ex = None THEN [d |-> EmptyDict, err |-> "none"]
              ELSE AddExisting(
                      [d |-> _make_dictionary_structure(
                                EmptyDict, ex.labels, TruthyNode(ex.psd),
                                CalibrationCreates(
                                   IF ex.calibration = None THEN None
                                   ELSE [t |-> "dict", v |-> ex.calibration]),
                                TruthyNode(ex.config), TruthyList(ex.approximant)),
                       err |-> "none"],
                      ex, 1)
    \* without an existing file existing_label is [None]: it holds no label
    IN  AddThisRun(r0, inp, run, IF ex = None THEN <<>> ELSE ex.labels)

\* the metafile as json.load returns it: the labels of a node sorted
GWJsonDocument(d) ==
    [node \in DOMAIN d |-> [keys |-> SortKeys(d[node].keys), at |-> d[node].at]]

\* what a run leaves: the dictionary, the exception, and the metafile that
\* save_to_json writes when the dictionary was made
GWGenerated(r) ==
    /\ gw_data' = r.d
    /\ gw_err' = r.err
    /\ gw_file' = IF r.err = "none" THEN GWJsonDocument(r.d) ELSE gw_file

\* a run of GWMetaFile: generate_meta_file_data and save_to_json
GWMetaFile(inp, existing) ==
    /\ gw_runs < MaxRuns
    /\ gw_runs' = gw_runs + 1
    /\ gw_in' = inp
    /\ gw_existing' = IF existing THEN gw_file ELSE None
    /\ GWGenerated(GWMakeDictionary(IF existing THEN DeprecatedGrab(gw_file) ELSE None,
                                    inp, gw_runs + 1))
    /\ UNCHANGED <<core_vars, read_vars, call_vars>>

\* summarypages without --add_to_existing
GWNewRun ==
    \E inp \in GWInputs : GWMetaFile(inp, FALSE)

\* summarypages --add_to_existing on the webdir of an earlier run
GWAddToExisting ==
    /\ gw_file # None
    /\ \E inp \in GWInputs : GWMetaFile(inp, TRUE)

\* -------------------------------------------------------------------------
\* pesummary.core.file.read: detection of the format of a results file
\* -------------------------------------------------------------------------
\* a string of the file, as the words it is made of
Leaf(words) == [t |-> "leaf", v |-> words]

\* a dictionary of a JSON document or a group of an HDF5 file
Group(ks) == [t |-> "group", keys |-> ks]

TopLevelKeys == {"version", "posterior_samples", "l1"}

NodeChoices == {Leaf(<<"bilby", "0.5.5">>), Leaf(<<"0.2.4">>),
                Group({"posterior_samples", "config_file"}),
                Group({"l1", "pesummary"})}

\* what opening the file gives: nothing (it is not of its container format),
\* a JSON document that is a list, or a dictionary
Roots(extension) ==
    {[kind |-> "invalid"]}
    \cup (IF extension = "json" THEN {[kind |-> "list"]} ELSE {})
    \cup {[kind |-> "dict", f |-> f] :
             f \in UNION {[K -> NodeChoices] : K \in SUBSET TopLevelKeys}}

Extensions == {"h5", "hdf5", "hdf", "json", "dat"}

LoaderNames == {"Bilby.load_file", "PESummary.load_file",
                "PESummaryDeprecated.load_file"}

\* the results files: their extension, their content, and how each loader
\* ends on them
Paths ==
    UNION {[extension : {e}, root : Roots(e),
            loads : [LoaderNames -> {"ok", "ImportError", "Exception"}],
            default : {"ok", "Exception"}] : e \in Extensions}

\* the outcome of a predicate
Returns(b) == IF b THEN "true" ELSE "false"

\* Python's `word in node`: a substring of a string, a key of a dictionary
In(word, node) ==
    IF node.t = "leaf" THEN \E i \in DOMAIN node.v : node.v[i] = word
    ELSE word \in node.keys

is_bilby_hdf5_file(path) ==
    IF path.root.kind # "dict" THEN "false"
    ELSE IF "version" \notin DOMAIN path.root.f THEN "false"
    ELSE Returns(In("bilby", path.root.f["version"]))

is_bilby_json_file(path) ==
    IF path.root.kind = "invalid" THEN "raise"
    ELSE IF path.root.kind = "list" THEN "false"
    ELSE IF "version" \notin DOMAIN path.root.f THEN "false"
    ELSE Returns(In("bilby", path.root.f["version"]))

_check_pesummary_file_deprecated(f) ==
    IF "posterior_samples" \in DOMAIN f
    THEN Returns(f["posterior_samples"].t = "group")
    ELSE "false"

_check_pesummary_file(f) ==
    IF "version" \notin DOMAIN f THEN "false"
    ELSE Returns(\A label \in DOMAIN f \ {"version"} :
                    /\ f[label].t = "group"
                    /\ "posterior_samples" \in f[label].keys)

CheckFunction(name, f) ==
    IF name = "_check_pesummary_file" THEN _check_pesummary_file(f)
    ELSE _check_pesummary_file_deprecated(f)

_is_pesummary_hdf5_file(path, check_function) ==
    IF path.root.kind # "dict" THEN "raise"
    ELSE CheckFunction(check_function, path.root.f)

_is_pesummary_json_file(path, check_function) ==
    IF path.root.kind # "dict" THEN "raise"
    ELSE CheckFunction(check_function, path.root.f)

\* the call check(path) of _read
Check(check, path) ==
    CASE check = "is_bilby_hdf5_file" -> is_bilby_hdf5_file(path)
      [] check = "is_pesummary_hdf5_file" ->
            _is_pesummary_hdf5_file(path, "_check_pesummary_file")
      [] check = "is_pesummary_hdf5_file_deprecated" ->
            _is_pesummary_hdf5_file(path, "_check_pesummary_file_deprecated")
      [] check = "is_bilby_json_file" -> is_bilby_json_file(path)
      [] check = "is_pesummary_json_file" ->
            _is_pesummary_json_file(path, "_check_pesummary_file")
      [] check = "is_pesummary_json_file_deprecated" ->
            _is_pesummary_json_file(path, "_check_pesummary_file_deprecated")

HDF5_Reordered ==
    <<[check |-> "is_pesummary_hdf5_file", load |-> "PESummary.load_file"],
      [check |-> "is_bilby_hdf5_file", load |-> "Bilby.load_file"],
      [check |-> "is_pesummary_hdf5_file_deprecated",
       load |-> "PESummaryDeprecated.load_file"]>>
CORE_HDF5_LOAD ==
    <<[check |-> "is_bilby_hdf5_file", load |-> "Bilby.load_file"],
      [check |-> "is_pesummary_hdf5_file", load |-> "PESummary.load_file"],
      [check |-> "is_pesummary_hdf5_file_deprecated",
       load |-> "PESummaryDeprecated.load_file"]>>

CORE_JSON_LOAD ==
    <<[check |-> "is_bilby_json_file", load |-> "Bilby.load_file"],
      [check |-> "is_pesummary_json_file", load |-> "PESummary.load_file"],
      [check |-> "is_pesummary_json_file_deprecated",
       load |-> "PESummaryDeprecated.load_file"]>>

Called(op, who, out) == [op |-> op, who |-> who, out |-> out]

\* default["default"](path): the calls made and what the caller gets
CORE_DEFAULT_LOAD(path) ==
    [trace |-> <<Called("load", "Default.load_file", path.default)>>,
     result |-> IF path.default = "ok"
                THEN [by |-> "Default.load_file", out |-> "ok"]
                ELSE [by |-> "Default.load_file", out |-> "raise"]]

After(call, r) == [trace |-> <<call>> \o r.trace, result |-> r.result]

\* a mutation of the except clauses: every failure ends the loop
AlwaysDefault(outcome) == "default"
\* the except clauses of _read: an ImportError ends the loop with the default
\* loader, any other exception continues with the next pair
OnFailure(outcome) == IF outcome = "ImportError" THEN "default" ELSE "continue"

\* the loop of _read from the i-th pair of load_options on
RECURSIVE ReadFrom(_, _, _)
ReadFrom(path, load_options, i) ==
    IF i > Len(load_options) THEN CORE_DEFAULT_LOAD(path)
    ELSE LET check == load_options[i].check
             load == load_options[i].load
             c == Check(check, path)
             checked == Called("check", check, c)
             loading == Called("load", load, path.loads[load])
         IN  IF c = "raise"
             THEN [trace |-> <<checked>>, result |-> [by |-> check, out |-> "raise"]]
             ELSE IF c = "false"
             THEN After(checked, ReadFrom(path, load_options, i + 1))
             ELSE IF path.loads[load] = "ok"
             THEN [trace |-> <<checked, loading>>,
                   result |-> [by |-> load, out |-> "ok"]]
             ELSE IF OnFailure(path.loads[load]) = "default"
             THEN After(checked, After(loading, CORE_DEFAULT_LOAD(path)))
             ELSE After(checked,
                        After(loading, ReadFrom(path, load_options, i + 1)))

_read(path, load_options) == ReadFrom(path, load_options, 1)

read(path) ==
    IF path.extension \in {"hdf5", "h5", "hdf"} THEN _read(path, CORE_HDF5_LOAD)
    ELSE IF path.extension = "json" THEN _read(path, CORE_JSON_LOAD)
    ELSE CORE_DEFAULT_LOAD(path)

\* a call of read on the results file
ReadFile ==
    /\ rd_result = None
    /\ rd_trace' = read(rd_path).trace
    /\ rd_result' = read(rd_path).result
    /\ UNCHANGED <<rd_path, core_vars, gw_vars, call_vars>>

ReadIdle ==
    /\ rd_path = None
    /\ rd_trace = <<>>
    /\ rd_result = None

\* -------------------------------------------------------------------------
\* PESummary.load_file: a path that is a directory
\* -------------------------------------------------------------------------
CallIdle ==
    /\ call_args = None
    /\ call_result = None

\* a path is the sequence of its components: <<"webdir", "home.html">> is
\* webdir/home.html and <<"home.html">> is home.html
DirectoryNames == {<<".">>, <<"webdir">>, <<"", "home", "webdir">>}

DirectoryEntries == {"home.html", "samples", "css"}

SamplesEntries == {"posterior_samples.json", "posterior_samples.h5", "config"}

\* the paths load_file is called on: a directory with its entries and the
\* entries of its samples directory, a file, or nothing
LoadFilePaths ==
    {[fn |-> "load_file", kind |-> "dir", path |-> d, entries |-> es, samples |-> ss] :
        d \in DirectoryNames, es \in SUBSET DirectoryEntries,
        ss \in SUBSET SamplesEntries}
    \cup {[fn |-> "load_file", kind |-> k, path |-> d \o <<"posterior_samples.json">>,
           entries |-> {}, samples |-> {}] :
             k \in {"file", "missing"}, d \in DirectoryNames}

\* glob(path + "/*"): the entries of the directory, each with the directory
\* in front
GlobAll(a) == {a.path \o <<e>> : e \in a.entries}

\* glob(path + "/samples/posterior_samples*")
GlobPosteriorSamples(a) ==
    IF "samples" \in a.entries
    THEN {a.path \o <<"samples", f>> :
             f \in a.samples \cap {"posterior_samples.json", "posterior_samples.h5"}}
    ELSE {}

Loaded(path) == [out |-> "loaded", file |-> path]

Raised(e) == [out |-> e, file |-> <<>>]

\* what load_file can return: glob lists a directory in arbitrary order
load_file(a) ==
    IF a.kind = "dir"
    THEN IF <<"home.html">> \in GlobAll(a)
         THEN IF GlobPosteriorSamples(a) = {} THEN {Raised("IndexError")}
              ELSE {Loaded(f) : f \in GlobPosteriorSamples(a)}
         ELSE {Raised("FileNotFoundError")}
    ELSE IF a.kind = "missing" THEN {Raised("FileNotFoundError")}
    ELSE {Loaded(a.path)}

LoadFile ==
    /\ call_args # None /\ call_args.fn = "load_file"
    /\ call_result = None
    /\ call_result' \in load_file(call_args)
    /\ UNCHANGED <<call_args, core_vars, gw_vars, read_vars>>

\* -------------------------------------------------------------------------
\* _MetaFile._create_softlinks
\* -------------------------------------------------------------------------
\* a Python list of integers, given by their digits
PyList(digits) == [t |-> "list", v |-> digits]

\* a numpy array of floats; of every element str() prints the part `shown`
\* and not the part `hidden` (the digits after the printed precision, the
\* elements summarised by ...)
NdArray(cells) == [t |-> "ndarray", v |-> cells]

Cell(shown, hidden) == [shown |-> shown, hidden |-> hidden]

\* the value "softlink:/label/key"
SoftLink(path) == [t |-> "softlink", v |-> path]

\* sep.join(words), as a sequence of characters
RECURSIVE Join(_, _)
Join(words, sep) ==
    IF words = <<>> THEN <<>>
    ELSE IF Len(words) = 1 THEN <<words[1]>>
    ELSE <<words[1]>> \o sep \o Join(Tail(words), sep)

\* str(value) of a list and of a numpy array, as a sequence of characters
StrOf(value) ==
    IF value.t = "list" THEN <<"[">> \o Join(value.v, <<",", " ">>) \o <<"]">>
    ELSE <<"[">> \o Join([i \in DOMAIN value.v |-> value.v[i].shown], <<".", " ">>)
         \o <<".", "]">>

\* the key of rev_dictionary: the value if it is hashable, else str(value)
RevKey(value) == IF value.t = "str" THEN value.v ELSE StrOf(value)

SoftlinkLabels == {"l1", "l2"}

SoftlinkKeys == {"psds", "calibration_envelope"}

\* the leaves: two strings, a list whose str() is the second string, and two
\* arrays that differ in what str() does not print
SoftlinkLeaves ==
    {Str(<<"a">>), Str(<<"[", "1", "]">>), PyList(<<"1">>),
     NdArray(<<Cell("1", "0"), Cell("2", "0")>>),
     NdArray(<<Cell("1", "0"), Cell("2", "5")>>)}

SoftlinkDictionaries ==
    {[fn |-> "_create_softlinks", dictionary |-> d] :
        d \in [SoftlinkLabels -> [SoftlinkKeys -> SoftlinkLeaves]]}

\* nested_to_record(data, sep="/"): the leaves by their path
nested_to_record(d) ==
    [p \in {<<l, k>> : l \in DOMAIN d, k \in SoftlinkKeys} |-> d[p[1]][p[2]]]

\* the dictionaries _create_softlinks can return: of the paths with the same
\* key of rev_dictionary all but tmp[0] are replaced by a link to tmp[0], and
\* the order of list(values) of a set is arbitrary
_create_softlinks(dictionary) ==
    LET flat == nested_to_record(dictionary)
        keys == {RevKey(flat[p]) : p \in DOMAIN flat}
        values(key) == {p \in DOMAIN flat : RevKey(flat[p]) = key}
        firsts == {c \in [keys -> DOMAIN flat] : \A key \in keys : c[key] \in values(key)}
    IN  {[l \in DOMAIN dictionary |->
            [k \in DOMAIN dictionary[l] |->
                LET key == RevKey(dictionary[l][k])
                IN  IF Cardinality(values(key)) > 1 /\ c[key] # <<l, k>>
                    THEN SoftLink(c[key])
                    ELSE dictionary[l][k]]] : c \in firsts}

\* create_hdf5_dataset for a leaf of such a dictionary: a string with
\* "softlink:" becomes a h5py.SoftLink, every other leaf a dataset
H5Leaf(value) ==
    IF value.t = "softlink" THEN [t |-> "SoftLink", path |-> value.v]
    ELSE [t |-> "dataset", data |-> value]

\* recursively_save_dictionary_to_hdf5_file on a dictionary of labels
H5Tree(d) == [l \in DOMAIN d |-> [k \in DOMAIN d[l] |-> H5Leaf(d[l][k])]]

CreateSoftlinks ==
    /\ call_args # None /\ call_args.fn = "_create_softlinks"
    /\ call_result = None
    /\ call_result' \in _create_softlinks(call_args.dictionary)
    /\ UNCHANGED <<call_args, core_vars, gw_vars, read_vars>>

\* -------------------------------------------------------------------------
\* The codecs on the leaves of a metadata dictionary
\* -------------------------------------------------------------------------
PyInt(x) == [t |-> "int", v |-> x]
Function(m, n, id) == [t |-> "function", module |-> m, name |-> n, id |-> id]
Class(m, n) == [t |-> "class", module |-> m, name |-> n]
Module(n) == [t |-> "module", name |-> n]
NpInteger(x) == [t |-> "np.integer", v |-> x]
NpBool(b) == [t |-> "np.bool_", v |-> b]

\* the values a sampler leaves in the metadata of an analysis
MetadataValues ==
    {Str(<<"dynesty">>), Str(<<"see ", "softlink:", "/l1/posterior_samples">>),
     Num(2), PyInt(3), None,
     Function("bilby.core.sampler", "run_sampler", "0x7f01"),
     Class("bilby.gw.likelihood", "GravitationalWaveTransient"),
     Module("lalsimulation"), Object, NpInteger(4), NpBool(TRUE), EmptyDict}

MetadataKeys == <<"likelihood", "nlive">>

MetadataDictionaries ==
    [Range(MetadataKeys) -> MetadataValues]

\* str(obj) of a function, of a class and of a numpy bool
StrOfObject(obj) ==
    CASE obj.t = "function" -> Str(<<"<function ", obj.name, " at ", obj.id, ">">>)
      [] obj.t = "class" -> Str(<<"<class '", obj.module, ".", obj.name, "'>">>)
      [] obj.t = "np.bool_" -> Str(<<IF obj.v THEN "True" ELSE "False">>)

\* the types json.dumps encodes without calling default
JsonNative(obj) ==
    DOMAIN obj = {} \/ obj.t \in {"str", "num", "int", "none", "nan"}

\* PESummaryJsonEncoder.default
default(obj) ==
    CASE obj.t = "function" -> StrOfObject(obj)
      [] obj.t = "np.integer" -> PyInt(obj.v)
      [] obj.t = "np.bool_" -> StrOfObject(obj)
      [] obj.t = "class" -> StrOfObject(obj)
      [] OTHER -> [error |-> "TypeError"]

\* json.dumps(dictionary, cls=PESummaryJsonEncoder)
JsonDumps(dictionary) ==
    LET enc(k) == IF JsonNative(dictionary[k]) THEN dictionary[k]
                  ELSE default(dictionary[k])
    IN  IF \E k \in DOMAIN dictionary : IsError(enc(k))
        THEN [raised |-> "TypeError"]
        ELSE [raised |-> "none", doc |-> [k \in DOMAIN dictionary |-> enc(k)]]

Dataset(array) == [t |-> "dataset", data |-> array]

\* isinstance(v, dict); the dictionaries among the metadata values are empty
IsDict(v) == DOMAIN v = {}

\* `"softlink:" in value` for a str; a string is the sequence of its pieces
InSoftlink(value) ==
    value.t = "str" /\ \E i \in DOMAIN value.v : value.v[i] = "softlink:"

\* value.split("softlink:")[1]: what stands between the first "softlink:"
\* and the next one
SplitSoftlink(v) ==
    LET marks == {i \in DOMAIN v : v[i] = "softlink:"}
        first == CHOOSE i \in marks : \A j \in marks : i <= j
        after == {i \in marks : i > first}
        stop == IF after = {} THEN Len(v) + 1
                ELSE CHOOSE i \in after : \A j \in after : i <= j
    IN  SubSeq(v, first + 1, stop - 1)

\* create_hdf5_dataset for a value that is not a list: the dataset or the
\* soft link created
create_hdf5_dataset(value) ==
    IF value = EmptyDict THEN Dataset(<<Str(<<"NaN">>)>>)
    ELSE IF InSoftlink(value)
    THEN [t |-> "SoftLink", path |-> SplitSoftlink(value.v)]
    ELSE
    CASE value.t \in {"str", "bytes"} -> Dataset(<<Bytes(value.v)>>)
      [] value.t \in {"num", "int", "nan", "np.integer"} -> Dataset(<<value>>)
      [] value.t \in {"class", "function"} ->
            Dataset(<<Bytes(<<value.module, value.name>>)>>)
      [] value.t = "module" -> Dataset(<<Bytes(<<value.name>>)>>)
      [] OTHER -> [error |-> "TypeError"]

\* the gw writer for a value that is not a dictionary or a list: the dataset
\* created, or None when no branch matches and nothing is created
GWCreateDataset(v) ==
    IF v = EmptyDict THEN Dataset(<<Str(<<"NaN">>)>>)
    ELSE
    CASE v.t \in {"str", "bytes"} -> Dataset(<<Bytes(v.v)>>)
      [] v.t \in {"num", "nan"} -> Dataset(<<v>>)
      [] OTHER -> None

\* the items are written in the order of the dictionary up to the first one
\* that raises; an item for which nothing is created leaves no member.
\* written[k] is what the writer does for the value at k
SaveItems(keys, written) ==
    LET bad == {i \in DOMAIN keys : IsError(written[keys[i]])}
        last == IF bad = {} THEN Len(keys)
                ELSE (CHOOSE i \in bad : \A j \in bad : i <= j) - 1
        made == {keys[i] : i \in {j \in 1..last : written[keys[j]] # None}}
    IN  [raised |-> IF bad = {} THEN "none" ELSE "TypeError",
         file |-> [k \in made |-> written[k]]]

\* core recursively_save_dictionary_to_hdf5_file: a dictionary becomes a
\* group (and the writer recurses into it), any other value goes to
\* create_hdf5_dataset
recursively_save_dictionary_to_hdf5_file(dictionary) ==
    SaveItems(MetadataKeys,
              [k \in DOMAIN dictionary |->
                  IF IsDict(dictionary[k]) THEN Group({})
                  ELSE create_hdf5_dataset(dictionary[k])])

\* gw _recursively_save_dictionary_to_hdf5_file: a dictionary becomes a
\* group, any other value goes through the chain of type tests
_recursively_save_dictionary_to_hdf5_file(dictionary) ==
    SaveItems(MetadataKeys,
              [k \in DOMAIN dictionary |->
                  IF IsDict(dictionary[k]) THEN Group({})
                  ELSE GWCreateDataset(dictionary[k])])

Codecs == {"json", "hdf5", "gw_hdf5"}

Save ==
    /\ call_args # None /\ call_args.fn = "save"
    /\ call_result = None
    /\ call_result' =
          CASE call_args.codec = "json" -> JsonDumps(call_args.dictionary)
            [] call_args.codec = "hdf5" ->
                  recursively_save_dictionary_to_hdf5_file(call_args.dictionary)
            [] call_args.codec = "gw_hdf5" ->
                  _recursively_save_dictionary_to_hdf5_file(call_args.dictionary)
    /\ UNCHANGED <<call_args, core_vars, gw_vars, read_vars>>

\* -------------------------------------------------------------------------
\* The LALInference reader
\* -------------------------------------------------------------------------
\* the field names of the samples table, in the order of the table
LalinferenceFields ==
    <<"logdistance", "luminosity_distance", "costheta_jn", "theta_jn",
      "a_1", "a_2", "a1", "a2", "tilt_1">>

LalinferenceNames ==
    {SelectSeq(LalinferenceFields, LAMBDA n : n \in S) :
        S \in SUBSET Range(LalinferenceFields)}

\* the value of the field p in the row r of the table, and the values
\* numpy derives from it
Field(p, r) == [t |-> "raw", p |-> p, r |-> r]
Derived(f, x) == [t |-> f, x |-> x]

\* samples = [list(i) for i in f[path_to_samples]]
LalinferenceSamples(names, n) ==
    [r \in 1..n |-> [c \in DOMAIN names |-> Field(names[c], r)]]

LalinferenceFiles ==
    {[fn |-> "_grab_data_from_lalinference_file", names |-> names,
      samples |-> LalinferenceSamples(names, n)] :
        names \in LalinferenceNames, n \in 0..MaxDraws}

\* the column `new` is appended when `from` is a name of the table; no test
\* is made for the name `new`
AppendDerived(d, from, new, f) ==
    IF from \in Range(d.names)
    THEN [names |-> Append(d.names, new),
          samples |-> [r \in DOMAIN d.samples |->
                          Append(d.samples[r], Derived(f, d.samples[r][Index(d.names, from)]))]]
    ELSE d

spin_magnitudes == {"a_1", "a_2"}
spin_angles == {"phi_jl", "tilt_1", "tilt_2", "phi_12"}

\* tilt_1 and tilt_2 are appended from the columns a1 and a2, and a_1 and
\* a_2 are replaced by their magnitude; list.index raises for a missing name
AppendTilts(d) ==
    IF spin_magnitudes \subseteq Range(d.names) /\ spin_angles \cap Range(d.names) = {}
    THEN LET names == d.names \o <<"tilt_1", "tilt_2">>
             row(r) == d.samples[r] \o
                          <<Derived("np.arccos(np.sign)", d.samples[r][Index(names, "a1")]),
                            Derived("np.arccos(np.sign)", d.samples[r][Index(names, "a2")])>>
         IN  IF d.samples # <<>> /\ ~({"a1", "a2"} \subseteq Range(names))
             THEN [error |-> "ValueError"]
             ELSE [names |-> names,
                   samples |-> [r \in DOMAIN d.samples |->
                      [c \in DOMAIN row(r) |->
                          IF c \in {Index(names, "a_1"), Index(names, "a_2")}
                          THEN Derived("abs", row(r)[c]) ELSE row(r)[c]]]]
    ELSE d

_grab_data_from_lalinference_file(file) ==
    AppendTilts(
        AppendDerived(
            AppendDerived([names |-> file.names, samples |-> file.samples],
                          "logdistance", "luminosity_distance", "np.exp"),
            "costheta_jn", "theta_jn", "np.arccos"))

GrabLalinference ==
    /\ call_args # None /\ call_args.fn = "_grab_data_from_lalinference_file"
    /\ call_result = None
    /\ call_result' = _grab_data_from_lalinference_file(call_args)
    /\ UNCHANGED <<call_args, core_vars, gw_vars, read_vars>>

\* -------------------------------------------------------------------------
\* The readers of an existing metafile in the legacy layout
\* -------------------------------------------------------------------------
\* a dataset of names: dtype "S" holds bytes, dtype "U" holds text
Names(dtype, v) == [dtype |-> dtype, v |-> v]

LegacyParameters == {<<"mass_1">>, <<"mass_1", "mass_2">>, <<"mass_2", "mass_1">>}

\* the injection_values dataset: numbers, or the text the writer stores
\* for NaN
LegacyInjection(kind, l, ps) ==
    [c \in DOMAIN ps |->
        IF kind = "NaN" THEN Bytes("NaN") ELSE Num(Rank(l) * 10 + c)]

LegacyGroup(l, dtype, ps, n, kind) ==
    [parameter_names |-> Names(dtype, ps),
     samples |-> [r \in 1..n |-> [c \in DOMAIN ps |-> Draw(l, ps[c], r)]],
     injection_values |-> LegacyInjection(kind, l, ps)]

\* posterior_samples/<label>/{parameter_names, samples} and
\* injection_data/<label>/injection_values; h5py lists the labels by name
LegacyFiles ==
    {[posterior_samples |->
         [keys |-> SortKeys(labs),
          at |-> [l \in Range(labs) |->
                     [parameter_names |-> g[l].parameter_names,
                      samples |-> g[l].samples]]],
      injection_data |->
         [keys |-> SortKeys(labs),
          at |-> [l \in Range(labs) |->
                     [injection_values |-> g[l].injection_values]]]] :
        labs \in {<<"l1">>, <<"l2">>, <<"l1", "l2">>},
        g \in UNION {[{"l1", "l2"} ->
                        {LegacyGroup(l, dtype, ps, n, kind) :
                            l \in {"l1", "l2"}, dtype \in {"S", "U"},
                            ps \in LegacyParameters, kind \in {"NaN", "num"}}] :
                     n \in 0..MaxDraws}}

\* the names as they are in the dataset
Undecoded(names) == names

\* [j.decode("utf-8") for j in p] when p[0] is bytes
Decode(names) ==
    IF names.dtype = "S" THEN Names("U", names.v) ELSE names

\* GWExistingFile._grab_data_from_dictionary: the tuple that is returned
GWExistingGrab(dictionary) ==
    LET post == dictionary["posterior_samples"]
        labs == SelectSeq(post.keys, LAMBDA i : DOMAIN post.at[i] # {})
    IN  <<labs,
          [num \in DOMAIN labs |-> Decode(post.at[labs[num]].parameter_names)],
          [num \in DOMAIN labs |-> post.at[labs[num]].samples],
          NodeOrNone(dictionary, "psds"),
          NodeOrNone(dictionary, "calibration_envelope"),
          NodeOrNone(dictionary, "config_file"),
          [num \in DOMAIN labs |->
              IF "approximant" \in DOMAIN dictionary
              THEN dictionary["approximant"].at[labs[num]] ELSE None],
          IF "injection_data" \in DOMAIN dictionary
          THEN [num \in DOMAIN labs |->
                   dictionary["injection_data"].at[labs[num]].injection_values]
          ELSE <<>> >>

\* ExistingFile: the existing_* properties over existing_data
ExistingFile(existing_data) ==
    [existing_labels |-> existing_data[1],
     existing_parameters |-> existing_data[2],
     existing_samples |-> existing_data[3],
     existing_injection |-> existing_data[8]]

\* PESummaryDeprecated._grab_data_from_dictionary on a dictionary that
\* holds parameter_names and samples for every label
DeprecatedLegacyGrab(dictionary) ==
    LET post == dictionary["posterior_samples"]
        labs == post.keys
        parameters(l) == Decode(post.at[l].parameter_names)
    IN  [parameters |-> [i \in DOMAIN labs |-> parameters(labs[i])],
         samples |-> [i \in DOMAIN labs |-> post.at[labs[i]].samples],
         injection |->
            IF "injection_data" \in DOMAIN dictionary
            THEN [i \in DOMAIN labs |->
                     [keys |-> parameters(labs[i]).v,
                      at |-> ZipDict(parameters(labs[i]).v,
                                     dictionary["injection_data"].at[labs[i]].injection_values)]]
            ELSE <<>>,
         version |-> [i \in DOMAIN labs |-> Str("No version information found")],
         kwargs |-> [i \in DOMAIN labs |-> [sampler |-> EmptyDict, meta_data |-> EmptyDict]],
         weights |-> [l \in Range(labs) |-> None],
         labels |-> labs,
         config |-> None,
         prior |-> EmptyDict]

ExistingReaders == {"GWExistingFile", "PESummaryDeprecated"}

ReadExisting ==
    /\ call_args # None /\ call_args.fn = "GWExistingFile"
    /\ call_result = None
    /\ call_result' = ExistingFile(GWExistingGrab(call_args.dictionary))
    /\ UNCHANGED <<call_args, core_vars, gw_vars, read_vars>>

ReadDeprecated ==
    /\ call_args # None /\ call_args.fn = "PESummaryDeprecated"
    /\ call_result = None
    /\ call_result' = DeprecatedLegacyGrab(call_args.dictionary)
    /\ UNCHANGED <<call_args, core_vars, gw_vars, read_vars>>

\* -------------------------------------------------------------------------
\* PESummary._grab_data_from_dictionary on the dictionary of any metafile
\* -------------------------------------------------------------------------
EntryNodes == {"posterior_samples", "injection_data", "meta_data", "version"}

AnalysisLabels == Labels \ {"version"}

\* the entry of the analysis l holding the nodes `present`
AnalysisEntry(l, present) ==
    LET full ==
            [posterior_samples |->
                 [parameter_names |-> <<"mass_1", "mass_2">>,
                  samples |-> <<<<Draw(l, "mass_1", 1), Draw(l, "mass_2", 1)>>>>],
             injection_data |->
                 [injection_values |-> <<Num(InjectionValue(l, "mass_1")),
                                         Num(InjectionValue(l, "mass_2"))>>],
             meta_data |-> [sampler |-> [nsamples |-> Num(Rank(l))],
                            meta_data |-> EmptyDict],
             version |-> FileVersion(l)]
    IN  [k \in present |-> full[k]]

\* the dictionaries of metafiles: with or without the aggregate-level version
\* node, every analysis with any of its nodes
Aggregates ==
    {[keys |-> labs \o top,
      at |-> [k \in Range(labs \o top) |->
                 IF k = "version" THEN [pesummary |-> PESUMMARY_VERSION]
                 ELSE AnalysisEntry(k, present[k])]] :
        <<labs, top, present>> \in
            UNION {{labs} \X {<<>>, <<"version">>} \X [Range(labs) -> SUBSET EntryNodes] :
                      labs \in DistinctSeqs(AnalysisLabels, MaxLabels)}}

\* what _check_pesummary_file sees of a dictionary: its keys, and which of
\* them are groups with which keys
Opened(dictionary) ==
    [k \in Range(dictionary.keys) |->
        [t |-> "group", keys |-> DOMAIN dictionary.at[k]]]

GrabAggregate ==
    /\ call_args # None /\ call_args.fn = "_grab_data_from_dictionary"
    /\ call_result = None
    /\ call_result' = GrabDataFromDictionary(call_args.dictionary)
    /\ UNCHANGED <<call_args, core_vars, gw_vars, read_vars>>

\* -------------------------------------------------------------------------
\* LALInference._add_fixed_parameters
\* -------------------------------------------------------------------------
MaxFixed == 2

\* the entries of standard_names the fixed parameters below look up
standard_names ==
    [mc |-> "chirp_mass", chirpmass |-> "chirp_mass",
     distance |-> "luminosity_distance", theta_jn |-> "theta_jn"]

\* an option name is the sequence of its pieces: <<"fix-", "mc">> is fix-mc
EngineKeys ==
    {<<"fix-", "mc">>, <<"fix-", "chirpmass">>, <<"fix-", "logdistance">>,
     <<"fix-", "costheta_jn">>, <<"fix", "ed">>, <<"seed">>}

EngineValues == {Str(<<"40.0">>), Str(<<"None">>)}

\* float(text)
Float(text) ==
    IF text.v = <<"40.0">> THEN Num(40) ELSE [error |-> "ValueError"]

\* what configparser gives for the file: it cannot be parsed, it has no
\* engine section, or the items of its engine section in file order
ConfigFiles ==
    {[kind |-> "unparsable"], [kind |-> "no_engine"]}
    \cup {[kind |-> "engine", items |-> [i \in DOMAIN ks |-> <<ks[i], vs[i]>>]] :
             <<ks, vs>> \in UNION {{ks} \X [DOMAIN ks -> EngineValues] :
                                      ks \in DistinctSeqs(EngineKeys, MaxFixed)}}

FixedParameterLists ==
    {<<"mass_1">>, <<"mass_1", "luminosity_distance">>, <<"chirp_mass", "theta_jn">>}

AddFixedCalls ==
    {[fn |-> "_add_fixed_parameters", parameters |-> ps,
      samples |-> LalinferenceSamples(ps, n), config_file |-> c] :
        ps \in FixedParameterLists, n \in 0..MaxDraws, c \in ConfigFiles}

\* parameters.append(name), then samples[num].append(float(fixed_value)) for
\* every row: float raises on the first row and no row has been extended
AppendFixed(st, name, fixed_value) ==
    LET named == [st EXCEPT !.parameters = Append(@, name)]
    IN  IF st.samples = <<>> THEN named
        ELSE IF IsError(Float(fixed_value)) THEN [named EXCEPT !.raised = TRUE]
        ELSE [named EXCEPT !.samples =
                 [r \in DOMAIN @ |-> Append(@[r], Float(fixed_value))]]

\* the body of the loop for one fixed parameter: the try block, and the
\* handler that runs when the try block raised; an exception of the handler
\* leaves the loop
AddFixedParameter(st, fixed_parameter, fixed_value) ==
    LET tried ==
            IF fixed_parameter \notin DOMAIN standard_names
            THEN [st EXCEPT !.raised = TRUE]
            ELSE IF standard_names[fixed_parameter] \in Range(st.parameters) THEN st
            ELSE AppendFixed(st, standard_names[fixed_parameter], fixed_value)
        caught == [tried EXCEPT !.raised = FALSE]
        distance ==
            IF fixed_parameter = "logdistance"
               /\ "luminosity_distance" \notin Range(caught.parameters)
            THEN AppendFixed(caught, standard_names["distance"], fixed_value)
            ELSE caught
        inclination ==
            IF fixed_parameter = "costheta_jn"
               /\ "theta_jn" \notin Range(distance.parameters)
            THEN AppendFixed(distance, standard_names["theta_jn"], fixed_value)
            ELSE distance
    IN  IF ~tried.raised THEN tried
        ELSE IF distance.raised THEN distance
        ELSE inclination

RECURSIVE AddFixedParameters(_, _)
AddFixedParameters(st, fixed_data) ==
    IF fixed_data = <<>> \/ st.raised THEN st
    ELSE AddFixedParameters(
             AddFixedParameter(st, Head(fixed_data)[1], Head(fixed_data)[2]),
             Tail(fixed_data))

\* LALInference._add_fixed_parameters: both return statements give the two
\* lists as they are at that moment
_add_fixed_parameters(params, rows, config_file) ==
    LET passed == [parameters |-> params, samples |-> rows, raised |-> FALSE]
        fixed == SelectSeq(config_file.items,
                           LAMBDA it : \E i \in DOMAIN it[1] : it[1][i] \in {"fix", "fix-"})
        fixed_data == [i \in DOMAIN fixed |-> <<fixed[i][1][2], fixed[i][2]>>]
        out == AddFixedParameters(passed, fixed_data)
    IN  IF config_file.kind # "engine"
        THEN [parameters |-> params, samples |-> rows]
        ELSE IF \E i \in DOMAIN fixed : fixed[i][1][1] # "fix-"
        THEN [parameters |-> params, samples |-> rows]
        ELSE [parameters |-> out.parameters, samples |-> out.samples]

AddFixed ==
    /\ call_args # None /\ call_args.fn = "_add_fixed_parameters"
    /\ call_result = None
    /\ call_result' = _add_fixed_parameters(call_args.parameters, call_args.samples,
                                            call_args.config_file)
    /\ UNCHANGED <<call_args, core_vars, gw_vars, read_vars>>

GWIdle ==
    /\ gw_in = None
    /\ gw_existing = None
    /\ gw_data = None
    /\ gw_err = "none"
    /\ gw_file = None
    /\ gw_runs = 0

CoreIdle ==
    /\ labels = <<>>
    /\ samples = EmptyDict
    /\ config = <<>>
    /\ injection_data = EmptyDict
    /\ file_kwargs = EmptyDict
    /\ priors = EmptyDict
    /\ package_information = EmptyDict
    /\ data = None
    /\ err = "none"
    /\ json_file = [kind |-> "absent"]
    /\ h5_file = [kind |-> "absent"]
    /\ loaded = None

InitGW == CoreIdle /\ GWIdle /\ ReadIdle /\ CallIdle

NextGW == GWNewRun \/ GWAddToExisting

SpecGW == InitGW /\ [][NextGW]_vars

\* -------------------------------------------------------------------------
\* Specification of the core aggregate
\* -------------------------------------------------------------------------
InitCore ==
    /\ labels \in LabelLists
    /\ \E n \in 0..MaxDraws :
       \E pc \in [Range(labels) -> ParamLists] :
          samples = [l \in Range(labels) |->
                        [parameters |-> pc[l],
                         cols |-> [p \in Range(pc[l]) |->
                                      [r \in 1..n |-> Draw(l, p, r)]]]]
    /\ \E cc \in [1..Len(labels) -> BOOLEAN] :
          config = [i \in 1..Len(labels) |->
                       IF cc[i] THEN [t |-> "dict", v |-> ConfigDict(labels[i])]
                       ELSE None]
    /\ injection_data \in InjectionChoices(labels, samples)
    /\ \E bad \in BOOLEAN :
          file_kwargs = [l \in Range(labels) |->
                            IF bad /\ l = labels[Len(labels)]
                            THEN [sampler |-> [f |-> Object], meta_data |-> EmptyDict]
                            ELSE [sampler |-> EmptyDict, meta_data |-> EmptyDict]]
    /\ priors \in PriorChoices(labels)
    /\ package_information = EmptyDict
    /\ data = None
    /\ err = "none"
    /\ json_file = [kind |-> "absent"]
    /\ h5_file = [kind |-> "absent"]
    /\ loaded = None
    /\ GWIdle
    /\ ReadIdle
    /\ CallIdle

NextCore == MakeDictionary \/ SaveToJson \/ ReadJson \/ SaveToHdf5 \/ ReadHdf5

SpecCore == InitCore /\ [][NextCore]_vars

\* -------------------------------------------------------------------------
\* Specification of the detection of the format
\* -------------------------------------------------------------------------
InitRead ==
    /\ rd_path \in Paths
    /\ rd_trace = <<>>
    /\ rd_result = None
    /\ CoreIdle
    /\ GWIdle
    /\ CallIdle

NextRead == ReadFile

SpecRead == InitRead /\ [][NextRead]_vars

\* -------------------------------------------------------------------------
\* Specification of PESummary.load_file
\* -------------------------------------------------------------------------
InitLoadFile ==
    /\ call_args \in LoadFilePaths
    /\ call_result = None
    /\ CoreIdle
    /\ GWIdle
    /\ ReadIdle

NextLoadFile == LoadFile

SpecLoadFile == InitLoadFile /\ [][NextLoadFile]_vars

\* -------------------------------------------------------------------------
\* Specification of _MetaFile._create_softlinks
\* -------------------------------------------------------------------------
InitSoftlinks ==
    /\ call_args \in SoftlinkDictionaries
    /\ call_result = None
    /\ CoreIdle
    /\ GWIdle
    /\ ReadIdle

NextSoftlinks == CreateSoftlinks

SpecSoftlinks == InitSoftlinks /\ [][NextSoftlinks]_vars

\* -------------------------------------------------------------------------
\* The codecs applied to a metadata dictionary
\* -------------------------------------------------------------------------
InitCodec ==
    /\ call_args \in [fn : {"save"}, codec : Codecs, dictionary : MetadataDictionaries]
    /\ call_result = None
    /\ CoreIdle
    /\ GWIdle
    /\ ReadIdle

NextCodec == Save

SpecCodec == InitCodec /\ [][NextCodec]_vars

\* -------------------------------------------------------------------------
\* The LALInference reader applied to a samples table
\* -------------------------------------------------------------------------
InitLalinference ==
    /\ call_args \in LalinferenceFiles
    /\ call_result = None
    /\ CoreIdle
    /\ GWIdle
    /\ ReadIdle

NextLalinference == GrabLalinference

SpecLalinference == InitLalinference /\ [][NextLalinference]_vars

\* -------------------------------------------------------------------------
\* The readers applied to an existing metafile in the legacy layout
\* -------------------------------------------------------------------------
InitExisting ==
    /\ call_args \in [fn : ExistingReaders, dictionary : LegacyFiles]
    /\ call_result = None
    /\ CoreIdle
    /\ GWIdle
    /\ ReadIdle

NextExisting == ReadExisting \/ ReadDeprecated

SpecExisting == InitExisting /\ [][NextExisting]_vars

InitGrab ==
    /\ call_args \in [fn : {"_grab_data_from_dictionary"}, dictionary : Aggregates]
    /\ call_result = None
    /\ CoreIdle
    /\ GWIdle
    /\ ReadIdle

NextGrab == GrabAggregate

SpecGrab == InitGrab /\ [][NextGrab]_vars

InitFixed ==
    /\ call_args \in AddFixedCalls
    /\ call_result = None
    /\ CoreIdle
    /\ GWIdle
    /\ ReadIdle

NextFixed == AddFixed

SpecFixed == InitFixed /\ [][NextFixed]_vars

\* -------------------------------------------------------------------------
\* Properties of the core aggregate
\* -------------------------------------------------------------------------
Draws(l) == Len(samples[l].cols[samples[l].parameters[1]])

Built == data # None

\* the dictionary is as _make_dictionary built it: save_to_hdf5 has not run
AsBuilt ==
    /\ Built
    /\ \A l \in Range(labels) : ~IsArray(data.at[l]["posterior_samples"])

\* the file that was read was written from the dictionary as built
ReadBack ==
    /\ loaded # None
    /\ loaded.from = "json" =>
          \A k \in DOMAIN json_file.doc.at :
             "posterior_samples" \in DOMAIN json_file.doc.at[k] =>
                ~IsArray(json_file.doc.at[k]["posterior_samples"])

\* C2 (as claimed): the final path is either as it was or holds a complete
\* aggregate, also when serialization fails part-way
C2_AtomicWrite ==
    /\ json_file.kind \in {"absent", "complete"}
    /\ h5_file.kind \in {"absent", "complete"}

\* C3 (as claimed): reading back the written aggregate reconstructs the same
\* set of labels and, per label, the same parameter list in the same order,
\* the same sample rows and the same presence of injection, weights and config
C3_RoundTrip ==
    ReadBack =>
       /\ loaded.error = "none"
       /\ Range(loaded.labels) = Range(labels)
       /\ Len(loaded.injection) = Len(loaded.labels)
       /\ \A i \in DOMAIN loaded.labels :
             LET l == loaded.labels[i]
             IN /\ loaded.parameters[i] = samples[l].parameters
                /\ loaded.samples[i] = RowMajor(samples[l])
                /\ DOMAIN loaded.injection[i] = Range(samples[l].parameters)
                /\ loaded.weights[l] # None <=> "weights" \in Range(samples[l].parameters)
                /\ loaded.config[l] # None

\* C7 (as claimed): a label without config and without prior samples has no
\* config_file / priors placeholder in the built dictionary
C7_AbsentOptionalField ==
    AsBuilt =>
       \A num \in DOMAIN labels :
          LET label == labels[num]
          IN (config[num] = None /\ \A key \in DOMAIN priors : label \notin DOMAIN priors[key])
             => /\ "config_file" \notin DOMAIN data.at[label]
                /\ "priors" \notin DOMAIN data.at[label]

NoOptional(num) ==
    /\ config[num] = None
    /\ \A key \in DOMAIN priors : labels[num] \notin DOMAIN priors[key]

\* C7 (amended): building succeeds for a label without config and without
\* prior samples, and the label's entry stores the empty mapping {} under
\* config_file and priors (the keys are present), so the reader returns {}
\* and not None as the label's config; only a label named version, whose entry
\* is the aggregate-level version node, has neither key
C7_EmptyPlaceholder ==
    /\ AsBuilt =>
          \A num \in DOMAIN labels :
             LET label == labels[num]
             IN NoOptional(num) =>
                  IF label = "version"
                  THEN /\ "config_file" \notin DOMAIN data.at[label]
                       /\ "priors" \notin DOMAIN data.at[label]
                  ELSE /\ "config_file" \in DOMAIN data.at[label]
                       /\ data.at[label]["config_file"] = EmptyDict
                       /\ "priors" \in DOMAIN data.at[label]
                       /\ data.at[label]["priors"] = EmptyDict
    /\ (loaded # None /\ loaded.error = "none") =>
          \A num \in DOMAIN labels :
             (NoOptional(num) /\ labels[num] \in Range(loaded.labels))
                => loaded.config[labels[num]] = EmptyDict

\* a label without config and prior samples has been built and read back
C7_Witness ==
    /\ loaded # None /\ loaded.error = "none"
    /\ \E num \in DOMAIN labels :
          /\ NoOptional(num)
          /\ labels[num] \in Range(loaded.labels)
          /\ \E other \in DOMAIN labels : ~NoOptional(other)

\* C8 (as claimed): a weights column is hoisted out by the reader: weights is
\* a sequence with one entry per draw, and neither the name weights nor its
\* values remain in the parameters and the sample rows
C8_WeightsHoisted ==
    (loaded # None /\ loaded.error = "none") =>
       \A i \in DOMAIN loaded.labels :
          LET l == loaded.labels[i]
          IN "weights" \in Range(samples[l].parameters) =>
                /\ loaded.weights[l] # None
                /\ Len(loaded.weights[l].v) = Draws(l)
                /\ "weights" \notin Range(loaded.parameters[i])
                /\ \A r \in DOMAIN loaded.samples[i] :
                      /\ Len(loaded.samples[i][r]) = Len(samples[l].parameters) - 1
                      /\ Draw(l, "weights", r) \notin Range(loaded.samples[i][r])

\* C9: posterior_samples of every label has parameter_names equal to the
\* record's parameters in their order and samples row-major, one row per
\* draw, samples[r][c] being the r-th draw of the c-th parameter name
C9_RowMajor ==
    AsBuilt =>
       \A l \in Range(labels) :
          LET ps == data.at[l]["posterior_samples"]
          IN /\ ps.parameter_names = samples[l].parameters
             /\ Len(ps.samples) = Draws(l)
             /\ \A r \in DOMAIN ps.samples :
                   /\ Len(ps.samples[r]) = Len(ps.parameter_names)
                   /\ \A c \in DOMAIN ps.parameter_names :
                         ps.samples[r][c] = samples[l].cols[ps.parameter_names[c]][r]

\* two parameters with three draws each are stored as three rows of two values
C9_Witness ==
    /\ AsBuilt
    /\ "l1" \in Range(labels)
    /\ data.at["l1"]["posterior_samples"] =
          [parameter_names |-> <<"mass_2", "mass_1">>,
           samples |-> <<<<121, 111>>, <<122, 112>>, <<123, 113>>>>]

\* -------------------------------------------------------------------------
\* Properties of the merge with an existing metafile
\* -------------------------------------------------------------------------
Merged == gw_existing # None

ExistingLabels == gw_existing["posterior_samples"].keys

Colliding == {i \in DOMAIN gw_in.labels : gw_in.labels[i] \in Range(ExistingLabels)}

\* C1 (as claimed): a new record whose label is already in the existing
\* aggregate makes the merge fail with a DuplicateLabel error
C1_DuplicateLabel ==
    (Merged /\ Colliding # {}) => gw_err = "DuplicateLabel"

\* the nodes of C4
SideNodes == {"version", "meta_data", "config_file", "psds", "calibration_envelope"}

\* C4 (as claimed): after a merge, the entries of every pre-existing label
\* are exactly that label's stored data of the existing aggregate
C4_ExistingUntouched ==
    (Merged /\ gw_err = "none") =>
       \A node \in SideNodes \cap DOMAIN gw_existing :
          \A l \in Range(ExistingLabels) :
             Has(gw_existing[node], l) =>
                /\ node \in DOMAIN gw_data
                /\ Has(gw_data[node], l)
                /\ gw_data[node].at[l] = gw_existing[node].at[l]

\* C5 (as claimed): after every build the version node holds the key
\* pesummary with the aggregator's own version
C5_PackageVersion ==
    /\ (gw_data # None /\ gw_err = "none") =>
          /\ "version" \in DOMAIN gw_data
          /\ Has(gw_data["version"], "pesummary")
          /\ gw_data["version"].at["pesummary"] = <<PESUMMARY_VERSION>>
    /\ Built =>
          /\ "pesummary" \in DOMAIN data.at["version"]
          /\ data.at["version"]["pesummary"] = <<PESUMMARY_VERSION>>

\* what the new records of the run supply
NewSupplies(node) ==
    \E i \in DOMAIN gw_in.labels :
       CASE node = "psds" -> gw_in.kinds.psds
         [] node = "calibration_envelope" ->
               CalibrationEnvelope(gw_in, i, gw_runs) # None
         [] node = "config_file" -> gw_in.kinds.config
         [] node = "approximant" -> gw_in.kinds.approximant

ExistingSupplies(node) ==
    /\ Merged
    /\ node \in DOMAIN gw_existing
    /\ \E l \in Range(gw_existing[node].keys) : gw_existing[node].at[l] # EmptyDict

OptionalNodes == {"psds", "calibration_envelope", "config_file", "approximant"}

\* C6 (as claimed): an optional top-level node exists only if at least one
\* record of the aggregate supplies that kind of data
C6_SparseNodes ==
    (gw_data # None /\ gw_err = "none") =>
       \A node \in OptionalNodes :
          node \in DOMAIN gw_data => (NewSupplies(node) \/ ExistingSupplies(node))

\* -------------------------------------------------------------------------
\* Properties of the detection of the format
\* -------------------------------------------------------------------------
IsCheck(c) == c.op = "check"

IsLoad(c) == c.op = "load"

\* the predicates of a family in the order bilby, pesummary, deprecated
\* pesummary, and the loader each of them selects
PredicateOrder(extension) ==
    IF extension \in {"h5", "hdf5", "hdf"}
    THEN <<"is_bilby_hdf5_file", "is_pesummary_hdf5_file",
           "is_pesummary_hdf5_file_deprecated">>
    ELSE IF extension = "json"
    THEN <<"is_bilby_json_file", "is_pesummary_json_file",
           "is_pesummary_json_file_deprecated">>
    ELSE <<>>

SelectedLoader == <<"Bilby.load_file", "PESummary.load_file",
                    "PESummaryDeprecated.load_file">>

\* C10: read takes the candidates of the family of the extension (none for
\* an extension that is neither of HDF5 nor json: the default loader is called
\* at once), evaluates their predicates in the order bilby, pesummary,
\* deprecated pesummary, and the first loader it calls is the loader of the
\* first predicate that returned true
C10_FirstTruePredicate ==
    rd_result # None =>
       LET order == PredicateOrder(rd_path.extension)
           checks == SelectSeq(rd_trace, IsCheck)
           loads == SelectSeq(rd_trace, IsLoad)
       IN  /\ Len(checks) <= Len(order)
           /\ \A k \in DOMAIN checks :
                 /\ checks[k].who = order[k]
                 /\ checks[k].out = Check(order[k], rd_path)
           /\ order = <<>> =>
                 rd_trace = <<Called("load", "Default.load_file", rd_path.default)>>
           /\ \A k \in DOMAIN order :
                 (/\ Check(order[k], rd_path) = "true"
                  /\ \A j \in 1..(k - 1) : Check(order[j], rd_path) = "false")
                 => /\ rd_trace[k].out = "true"
                    /\ rd_trace[k + 1] =
                          Called("load", SelectedLoader[k],
                                 rd_path.loads[SelectedLoader[k]])
                    /\ loads[1] = rd_trace[k + 1]
           /\ (\A k \in DOMAIN order : Check(order[k], rd_path) = "false")
                 => loads = <<Called("load", "Default.load_file", rd_path.default)>>

\* a file both the bilby and the pesummary predicate accept is given to the
\* bilby loader
C10_Witness ==
    /\ rd_result # None
    /\ rd_path.extension = "h5"
    /\ is_bilby_hdf5_file(rd_path) = "true"
    /\ _is_pesummary_hdf5_file(rd_path, "_check_pesummary_file") = "true"
    /\ rd_trace = <<Called("check", "is_bilby_hdf5_file", "true"),
                    Called("load", "Bilby.load_file", "ok")>>
    /\ rd_result = [by |-> "Bilby.load_file", out |-> "ok"]

IsDefaultLoad(c) == c.op = "load" /\ c.who = "Default.load_file"

IsCandidateLoad(c) == c.op = "load" /\ c.who # "Default.load_file"

\* the position of a predicate in the order of its family
Position(order, who) == CHOOSE k \in DOMAIN order : order[k] = who

\* TRUE iff the event after the j-th is the check of the candidate after the
\* one whose loader the j-th event called, or, after the last candidate, the
\* call of the default loader
FallsBackToNext(order, j) ==
    LET k == Position(order, rd_trace[j - 1].who)
    IN  /\ j + 1 \in DOMAIN rd_trace
        /\ IF k < Len(order)
           THEN rd_trace[j + 1].op = "check" /\ rd_trace[j + 1].who = order[k + 1]
           ELSE IsDefaultLoad(rd_trace[j + 1])

\* C11 (as claimed): every failure of a candidate loader moves on to the
\* next candidate, the default loader is called only after every candidate
\* has been tried, and no failure of a candidate loader reaches the caller
C11_FallbackChain ==
    (rd_result # None /\ PredicateOrder(rd_path.extension) # <<>>) =>
       LET order == PredicateOrder(rd_path.extension)
       IN  /\ \A j \in DOMAIN rd_trace :
                 (IsCandidateLoad(rd_trace[j]) /\ rd_trace[j].out # "ok")
                    => FallsBackToNext(order, j)
           /\ \A j \in DOMAIN rd_trace :
                 IsDefaultLoad(rd_trace[j])
                    => Len(SelectSeq(rd_trace, IsCheck)) = Len(order)
           /\ rd_result.by \in LoaderNames => rd_result.out = "ok"
           /\ rd_result.out = "ok" =>
                 Len(SelectSeq(rd_trace, IsLoad)) >= 1
                 /\ rd_trace[Len(rd_trace)].out = "ok"

\* C11 (amended): a candidate loader that raises an exception other than
\* ImportError moves on to the next candidate, and to the default loader after
\* the last one; an ImportError calls the default loader at once, skipping the
\* remaining candidates; the default loader is called last and in no other
\* case; no failure of a candidate loader reaches the caller, who gets the
\* result of the last loader called, or the exception of a predicate or of
\* the default loader
C11_FallbackExceptImportError ==
    (rd_result # None /\ PredicateOrder(rd_path.extension) # <<>>) =>
       LET order == PredicateOrder(rd_path.extension)
           last == rd_trace[Len(rd_trace)]
       IN  /\ \A j \in DOMAIN rd_trace :
                 IsCandidateLoad(rd_trace[j]) =>
                    CASE rd_trace[j].out = "ok" -> j = Len(rd_trace)
                      [] rd_trace[j].out = "Exception" -> FallsBackToNext(order, j)
                      [] rd_trace[j].out = "ImportError" ->
                            /\ j + 1 = Len(rd_trace)
                            /\ IsDefaultLoad(rd_trace[j + 1])
           /\ \A j \in DOMAIN rd_trace :
                 IsDefaultLoad(rd_trace[j]) =>
                    /\ j = Len(rd_trace)
                    /\ \/ j > 1 /\ rd_trace[j - 1].out = "ImportError"
                       \/ /\ Len(SelectSeq(rd_trace, IsCheck)) = Len(order)
                          /\ rd_trace[j - 1].out \in {"false", "Exception"}
           /\ rd_result.out = "ok" =>
                 /\ last.op = "load" /\ last.out = "ok"
                 /\ rd_result.by = last.who
           /\ rd_result.out = "raise" =>
                 \/ last.op = "check" /\ last.out = "raise" /\ rd_result.by = last.who
                 \/ IsDefaultLoad(last) /\ last.out = "Exception"
                    /\ rd_result.by = "Default.load_file"

\* the bilby loader failed on a file its predicate accepted and the pesummary
\* loader, the next candidate, read it
C11_Witness ==
    /\ rd_result = [by |-> "PESummary.load_file", out |-> "ok"]
    /\ rd_path.extension = "json"
    /\ rd_trace = <<Called("check", "is_bilby_json_file", "true"),
                    Called("load", "Bilby.load_file", "Exception"),
                    Called("check", "is_pesummary_json_file", "true"),
                    Called("load", "PESummary.load_file", "ok")>>

\* -------------------------------------------------------------------------
\* Properties of PESummary.load_file
\* -------------------------------------------------------------------------
LoadFileReturned ==
    call_args # None /\ call_args.fn = "load_file" /\ call_result # None

\* C12 (as claimed): for a directory with the marker home.html and exactly
\* one file matching samples/posterior_samples*, that file is loaded; with the
\* marker and zero or more than one matching file an error is raised
C12_DirectoryResolved ==
    (LoadFileReturned /\ call_args.kind = "dir"
       /\ "home.html" \in call_args.entries) =>
       LET matches == GlobPosteriorSamples(call_args)
       IN  /\ Cardinality(matches) = 1 =>
                 /\ call_result.out = "loaded"
                 /\ call_result.file \in matches
           /\ Cardinality(matches) # 1 => call_result.out # "loaded"

\* -------------------------------------------------------------------------
\* Properties of _MetaFile._create_softlinks
\* -------------------------------------------------------------------------
SoftlinksReturned ==
    call_args # None /\ call_args.fn = "_create_softlinks" /\ call_result # None

\* every link replaced by the value stored at its target
Resolved(d) ==
    [l \in DOMAIN d |->
        [k \in DOMAIN d[l] |->
            IF d[l][k].t = "softlink" THEN d[d[l][k].v[1]][d[l][k].v[2]]
            ELSE d[l][k]]]

\* C13 (as claimed): replacing every link of _create_softlinks(D) by the
\* value at its target gives D again
C13_SoftlinksPreserveTree ==
    SoftlinksReturned => Resolved(call_result) = call_args.dictionary

\* the labels share a PSD and no other leaf of the dictionary is equal to it
SharedPsd(d) ==
    /\ d["l1"]["psds"] = d["l2"]["psds"]
    /\ \A l \in DOMAIN d : d[l]["calibration_envelope"] # d["l1"]["psds"]

\* C14 (as claimed): when two labels hold the same PSD, the file written from
\* _create_softlinks holds the PSD as one dataset under one label and as a
\* soft-link to that dataset under the other, no other soft-link points at it,
\* and the soft-link resolves to data equal to the PSD
C14_OneDatasetOneLink ==
    (SoftlinksReturned /\ SharedPsd(call_args.dictionary)) =>
       LET d == call_args.dictionary
           f == H5Tree(call_result)
       IN  \E first, other \in DOMAIN d :
              /\ first # other
              /\ f[first]["psds"] = [t |-> "dataset", data |-> d[first]["psds"]]
              /\ f[other]["psds"] = [t |-> "SoftLink", path |-> <<first, "psds">>]
              /\ \A l \in DOMAIN d :
                    f[l]["calibration_envelope"] # [t |-> "SoftLink", path |-> <<first, "psds">>]

\* a file was written in full from a dictionary built with prior samples
WrittenWithPriors(file) ==
    /\ file.kind = "complete"
    /\ DOMAIN priors # {}

\* C15 (as claimed): in the serialized document the prior samples are a node
\* keyed first by parameter name and then by label, and the reader returns
\* them in that parameter-then-label shape
C15_PriorsInverted ==
    /\ \A file \in {json_file, h5_file} :
          WrittenWithPriors(file) =>
             /\ "priors" \in DOMAIN file.doc.at
             /\ \A key \in DOMAIN priors :
                   /\ key \in DOMAIN file.doc.at["priors"]
                   /\ \A label \in DOMAIN priors[key] :
                         file.doc.at["priors"][key][label] = priors[key][label]
    /\ (ReadBack /\ loaded.error = "none") =>
          \A key \in DOMAIN priors :
             /\ key \in DOMAIN loaded.prior
             /\ \A label \in DOMAIN priors[key] :
                   /\ label \in DOMAIN loaded.prior[key]
                   /\ loaded.prior[key][label] = priors[key][label]

\* C15 (amended): in the serialized document the prior samples are stored
\* under each label's entry, keyed by label, then "priors", then parameter
\* name, and no node of the document is keyed by parameter name first; the
\* reader regroups them and returns them keyed by parameter name, then label
C15_PriorsUnderLabel ==
    /\ \A file \in {json_file, h5_file} :
          WrittenWithPriors(file) =>
             /\ "priors" \notin DOMAIN file.doc.at
             /\ \A key \in DOMAIN priors :
                   /\ key \notin DOMAIN file.doc.at
                   /\ \A label \in DOMAIN priors[key] :
                         /\ key \in DOMAIN file.doc.at[label]["priors"]
                         /\ file.doc.at[label]["priors"][key] = priors[key][label]
    /\ (ReadBack /\ loaded.error = "none") =>
          \A key \in DOMAIN priors :
             /\ key \in DOMAIN loaded.prior
             /\ \A label \in DOMAIN priors[key] :
                   /\ label \in DOMAIN loaded.prior[key]
                   /\ loaded.prior[key][label] = priors[key][label]

\* prior samples of two labels were written and read back
C15_Witness ==
    /\ ReadBack /\ loaded.error = "none"
    /\ "mass_1" \in DOMAIN priors
    /\ Cardinality(DOMAIN priors["mass_1"]) = 2
    /\ DOMAIN loaded.prior["mass_1"] = DOMAIN priors["mass_1"]

\* a metadata dictionary was saved with the codec
SavedWith(codec) ==
    /\ call_args # None /\ call_args.fn = "save"
    /\ call_args.codec = codec
    /\ call_result # None

\* the qualified name of a function, class or module: module.name
QualifiedName(value) ==
    IF value.t = "module" THEN Str(<<value.name>>)
    ELSE Str(<<value.module, ".", value.name>>)

\* C16 (as claimed): json.dumps with PESummaryJsonEncoder completes for every
\* metadata value; a value of a JSON type is written as it is, a function,
\* class or module as its qualified-name string, a numpy integer as a number
\* and any other value as a string
C16_JsonNeverFails ==
    SavedWith("json") =>
       /\ call_result.raised = "none"
       /\ \A k \in DOMAIN call_args.dictionary :
             LET v == call_args.dictionary[k]
                 written == call_result.doc[k]
             IN  CASE JsonNative(v) -> written = v
                   [] v.t \in {"function", "class", "module"} ->
                         written = QualifiedName(v)
                   [] v.t = "np.integer" -> written = PyInt(v.v)
                   [] OTHER -> written.t = "str"

\* the leaf types an HDF5 dataset holds: text and numbers
H5Representable(v) ==
    DOMAIN v = {} \/ v.t \in {"str", "bytes", "num", "int", "nan", "np.integer"}

\* C17 (as claimed): either HDF5 writer raises when a leaf of the dictionary
\* is of a type it cannot represent, and a file written without an error
\* holds a dataset for every leaf
C17_Hdf5Raises ==
    \A codec \in {"hdf5", "gw_hdf5"} :
       SavedWith(codec) =>
          /\ (\E k \in DOMAIN call_args.dictionary :
                 ~H5Representable(call_args.dictionary[k]))
                => call_result.raised = "TypeError"
          /\ call_result.raised = "none"
                => DOMAIN call_result.file = DOMAIN call_args.dictionary

\* the LALInference reader returned the names and the samples
LalinferenceReturned ==
    /\ call_args # None /\ call_args.fn = "_grab_data_from_lalinference_file"
    /\ call_result # None
    /\ ~IsError(call_result)

\* C18 (as claimed): the derived columns are appended only when they are not
\* in the table already: the returned parameter list holds no name twice,
\* every row holds one value per parameter, and a table that holds
\* luminosity_distance (theta_jn) gets no further luminosity_distance
\* (theta_jn) column
C18_ExpansionIdempotent ==
    LalinferenceReturned =>
       LET names == call_result.names
       IN  /\ \A i, j \in DOMAIN names : names[i] = names[j] => i = j
           /\ \A r \in DOMAIN call_result.samples :
                 Len(call_result.samples[r]) = Len(names)
           /\ \A new \in {"luminosity_distance", "theta_jn"} :
                 new \in Range(call_args.names) =>
                    Cardinality({i \in DOMAIN names : names[i] = new}) = 1

\* the reader of the existing metafile has returned
ExistingRead(reader) ==
    /\ call_args # None /\ call_args.fn = reader
    /\ call_result # None

\* C19: for a metafile in the legacy layout the existing-file reader returns
\* the names of the sub-groups of posterior_samples as the labels and, at the
\* index of each label, its parameter names as text in stored order, its
\* sample rows in stored order and its injection values in stored order
C19_LegacyLayoutRead ==
    /\ ExistingRead("GWExistingFile") =>
          LET f == call_args.dictionary
              post == f["posterior_samples"]
              labs == call_result.existing_labels
          IN  /\ labs = post.keys
              /\ \A num \in DOMAIN labs :
                    /\ call_result.existing_parameters[num] =
                          Names("U", post.at[labs[num]].parameter_names.v)
                    /\ call_result.existing_samples[num] = post.at[labs[num]].samples
                    /\ call_result.existing_injection[num] =
                          f["injection_data"].at[labs[num]].injection_values
    /\ ExistingRead("PESummaryDeprecated") =>
          LET f == call_args.dictionary
              post == f["posterior_samples"]
              labs == call_result.labels
          IN  /\ labs = post.keys
              /\ \A num \in DOMAIN labs :
                    LET names == post.at[labs[num]].parameter_names.v
                        stored == f["injection_data"].at[labs[num]].injection_values
                    IN  /\ call_result.parameters[num] = Names("U", names)
                        /\ call_result.samples[num] = post.at[labs[num]].samples
                        /\ call_result.injection[num].keys = names
                        /\ \A c \in DOMAIN names :
                              call_result.injection[num].at[names[c]] =
                                 parse_injection_value(stored[c])

\* two labels with parameter names stored as bytes in different orders, with
\* draws, were read by GWExistingFile
C19_Witness ==
    /\ ExistingRead("GWExistingFile")
    /\ call_result.existing_labels = <<"l1", "l2">>
    /\ call_args.dictionary["posterior_samples"].at["l1"].parameter_names =
          Names("S", <<"mass_1", "mass_2">>)
    /\ call_args.dictionary["posterior_samples"].at["l2"].parameter_names =
          Names("S", <<"mass_2", "mass_1">>)
    /\ call_result.existing_parameters[2] = Names("U", <<"mass_2", "mass_1">>)
    /\ Len(call_result.existing_samples[1]) = 2
    /\ Len(call_result.existing_injection[2]) = 2

\* make_dictionary has run
Made == "pesummary" \in DOMAIN package_information

\* C20 (as claimed): make_dictionary stores, for every label, one injection
\* value per parameter of the record, in parameter order: the entry of the
\* supplied injection mapping, or NaN for a parameter without an entry; a
\* missing entry does not make it fail
C20_InjectionOverParameters ==
    Made =>
       /\ Built =>
             \A l \in Range(labels) \ {"version"} :
                LET ps == samples[l].parameters
                IN  data.at[l]["injection_data"].injection_values =
                       [c \in DOMAIN ps |->
                           IF ps[c] \in DOMAIN injection_data[l]
                           THEN injection_data[l][ps[c]] ELSE NaN]
       /\ (~Built /\ "version" \notin Range(labels)) =>
             \A l \in Range(labels) :
                Range(samples[l].parameters) \subseteq DOMAIN injection_data[l]

\* C21 (as claimed): under every optional node of the built aggregate every
\* label of the aggregate has an entry, and no build fails because the entry
\* of a label is missing under a node
C21_EveryLabelUnderNode ==
    gw_data # None =>
       /\ gw_err # "KeyError"
       /\ gw_err = "none" =>
             \A node \in OptionalNodes \cap DOMAIN gw_data :
                \A l \in Range(gw_data["posterior_samples"].keys) :
                   Has(gw_data[node], l)

\* the labels of the aggregate in the claimed order: the existing labels,
\* then the new labels that are not among them, each group in input order
ExistingThenNew ==
    (IF Merged THEN ExistingLabels ELSE <<>>)
    \o SelectSeq(gw_in.labels,
                 LAMBDA l : ~Merged \/ l \notin Range(ExistingLabels))

\* C22 (as claimed): the built dictionary holds the labels existing-first,
\* then new, each group in input order, with every record's parameters in
\* the reader's order, and the labels read back from the written JSON file
\* are in that same order
C22_LabelOrder ==
    (gw_data # None /\ gw_err = "none") =>
       /\ gw_data["posterior_samples"].keys = ExistingThenNew
       /\ \A l \in Range(ExistingThenNew) :
             gw_data["posterior_samples"].at[l].parameter_names =
                IF Merged /\ l \in Range(ExistingLabels)
                THEN gw_existing["posterior_samples"].at[l].parameter_names
                ELSE GWParameters
       /\ DeprecatedGrab(gw_file).labels = ExistingThenNew

\* C23 (as claimed): an empty dictionary among the values is written by
\* either HDF5 writer as a dataset that holds the string "NaN"
C23_EmptyDictAsNaN ==
    \A codec \in {"hdf5", "gw_hdf5"} :
       SavedWith(codec) =>
          \A k \in DOMAIN call_args.dictionary :
             (call_args.dictionary[k] = EmptyDict /\ call_result.raised = "none") =>
                /\ k \in DOMAIN call_result.file
                /\ call_result.file[k] = Dataset(<<Str(<<"NaN">>)>>)

\* C24 (as claimed): no step changes the dictionary once it is built; in
\* particular save_to_json and save_to_hdf5 leave data as it was
C24_SerializationPure ==
    [][data # None => data' = data]_vars

\* C25 (as claimed): the injection values written with save_to_hdf5 are read
\* back element by element: NaN where NaN was supplied and the supplied
\* number everywhere else
C25_NumericListPreserved ==
    (loaded # None /\ loaded.from = "h5" /\ loaded.error = "none") =>
       \A i \in DOMAIN loaded.labels :
          LET l == loaded.labels[i]
          IN  \A p \in Range(samples[l].parameters) :
                 /\ p \in DOMAIN loaded.injection[i]
                 /\ loaded.injection[i][p] = injection_data[l][p]

\* C26 (as claimed): no step changes the package_information mapping the
\* instance was constructed with, and the mapping, which is the default
\* shared by every instance constructed without the argument, never holds
\* more than a later build puts into its own version node
C26_PackageInformationUntouched ==
    /\ [][package_information' = package_information]_vars
    /\ [](DOMAIN package_information \subseteq {"pesummary"})

\* C27 (as claimed): whatever the labels are, the aggregate-level version
\* node of the built dictionary holds the package versions only, and every
\* label that was supplied is among the labels the reader returns
C27_AnyLabelSafe ==
    /\ Built => DOMAIN data.at["version"] = {"pesummary"}
    /\ (loaded # None /\ loaded.error = "none") =>
          Range(labels) \subseteq Range(loaded.labels)

\* what _grab_data_from_dictionary returned for a dictionary that
\* _check_pesummary_file accepts
GrabbedAccepted ==
    /\ call_args # None /\ call_args.fn = "_grab_data_from_dictionary"
    /\ call_result # None
    /\ _check_pesummary_file(Opened(call_args.dictionary)) = "true"

\* C28 (as claimed): for every accepted dictionary the reader returns, and
\* parameters, samples, injection, version and kwargs have one element per
\* label, the i-th being that of the i-th label, also when a label has no
\* injection_data, meta_data or version entry
C28_ListsAligned ==
    GrabbedAccepted =>
        /\ call_result.error = "none"
        /\ LET labs == call_result.labels
               entry(i) == call_args.dictionary.at[labs[i]]
           IN  /\ labs = SelectSeq(call_args.dictionary.keys, LAMBDA k : k # "version")
               /\ \A name \in {"parameters", "samples", "injection", "version", "kwargs"} :
                     Len(call_result[name]) = Len(labs)
               /\ \A i \in DOMAIN labs :
                     /\ call_result.parameters[i] = entry(i)["posterior_samples"].parameter_names
                     /\ call_result.samples[i] = entry(i)["posterior_samples"].samples
                     /\ "version" \in DOMAIN entry(i) =>
                           call_result.version[i] = entry(i)["version"]
                     /\ "meta_data" \in DOMAIN entry(i) =>
                           call_result.kwargs[i] = entry(i)["meta_data"]
                     /\ "injection_data" \in DOMAIN entry(i) =>
                           call_result.injection[i]["mass_1"] =
                               entry(i)["injection_data"].injection_values[1]

\* C29 (as claimed): a string among the values that the input supplied is
\* written by create_hdf5_dataset as a string dataset with its full content,
\* also when it contains the text "softlink:", and never as a soft link
C29_StringsStayStrings ==
    SavedWith("hdf5") =>
        \A k \in DOMAIN call_result.file :
           /\ call_result.file[k].t # "SoftLink"
           /\ (~IsDict(call_args.dictionary[k]) /\ call_args.dictionary[k].t = "str") =>
                 call_result.file[k] = Dataset(<<Bytes(call_args.dictionary[k].v)>>)

FixedReturned ==
    call_args # None /\ call_args.fn = "_add_fixed_parameters" /\ call_result # None

\* the config file has no engine section, or a fix- option of the engine
\* section has a value that is not a number
NothingToFix(config_file) ==
    \/ config_file.kind = "no_engine"
    \/ /\ config_file.kind = "engine"
       /\ \E i \in DOMAIN config_file.items :
             /\ config_file.items[i][1][1] = "fix-"
             /\ IsError(Float(config_file.items[i][2]))

\* C30 (as claimed): on return of _add_fixed_parameters every row has
\* len(parameters) entries and no parameter name occurs twice; with no engine
\* section, or with a fix- value that is not a number, parameters and samples
\* are returned as they were passed in
C30_FixedAligned ==
    FixedReturned =>
        /\ \A r \in DOMAIN call_result.samples :
              Len(call_result.samples[r]) = Len(call_result.parameters)
        /\ \A i, j \in DOMAIN call_result.parameters :
              call_result.parameters[i] = call_result.parameters[j] => i = j
        /\ NothingToFix(call_args.config_file) =>
              /\ call_result.parameters = call_args.parameters
              /\ call_result.samples = call_args.samples

====
